---- MODULE Spec2Model ----
(***************************************************************************)
(* File-backed entity/relation store of ghcp-memory-context               *)
(* (internal/storage/filestore, internal/models).                         *)
(*                                                                         *)
(* Threads call the FileStore operations; every lock operation and every  *)
(* file-system call of an operation is one step, so that the model has    *)
(* the interleavings the Go scheduler can produce.                        *)
(***************************************************************************)
EXTENDS Integers, Sequences, FiniteSets, TLC

VARIABLES
    files,          \* entity files on disk: name -> file content
    relFile,        \* content of relations/relations.json
    entityCache,    \* fs.entityCache: function from the cached names to entities
    relationCache,  \* fs.relationCache: a relation sequence
    cacheMutex,     \* fs.cacheMutex (sync.RWMutex)
    fileLocks,      \* fs.fileLocks: path -> lock object
    lockObjs,       \* the sync.RWMutex objects created by getFileLock
    lockMutex,      \* fs.lockMutex (sync.Mutex): 0 or the holding thread
    pc,             \* position of each thread inside its operation
    op,             \* the operation each thread runs and its arguments
    loc,            \* local variables of the running operation
    res,            \* what the last completed operation of the thread returned
    snap,           \* history: the store as it was when the operation started
    nops,           \* operations started by each thread
    uuidCtr,        \* number of UUIDs generated so far (uuid.New)
    ctxDone,        \* the context passed to the operation was cancelled
    hist,           \* history: bookkeeping the properties are stated with
    cfg             \* the scenario: which threads run, which inputs they use

vars == <<files, relFile, entityCache, relationCache, cacheMutex, fileLocks,
          lockObjs, lockMutex, pc, op, loc, res, snap, nops, uuidCtr, ctxDone,
          hist, cfg>>

(***************************************************************************)
(* Bounds of the model                                                     *)
(***************************************************************************)
NumThreads == 2     \* threads of the create/read/update/delete scenarios
MaxOps == 2         \* calls each of them makes
RWThreads == 3      \* threads of the writers-and-readers scenario
RWOps == 1          \* calls each of them makes
SeqOps == 2         \* calls of the single thread of the sequential scenarios
RTOps == 3          \* calls of the single thread of the round-trip scenario
LiveOps == 1        \* calls of each thread of the termination scenario
ValOps == 2         \* calls of the single thread of the validation scenario
RemOps == 2         \* calls of the plain caller of the remember scenario
RelOps == 2         \* calls of the deleting caller of the create-relation scenario
SearchOps == 4      \* calls of the single thread of the search scenario
InitOps == 3        \* calls of the single thread of the initialization scenario
EntOps == 4         \* calls of the caller of the entity-method scenario
DelOps == 2         \* calls of the plain caller of the delete-request scenario
RaceOps == 1        \* calls of each thread of the update-and-delete scenario
ObjOps == 4         \* calls and assignments of the caller that holds pointers

Threads == 1..(IF RWThreads > NumThreads THEN RWThreads ELSE NumThreads)

(***************************************************************************)
(* Strings.  A Go string is a byte string; it is modelled as a sequence   *)
(* of units, each a character or the byte BadByte that is not valid       *)
(* UTF-8.  ReplChar is U+FFFD.                                             *)
(***************************************************************************)
BadByte == "xFF"
ReplChar == "uFFFD"
EmptyStr == << >>

\* validate:"...,max=N" tags of the model structs
MaxNameLen == 200
MaxTypeLen == 100
MaxTextLen == 1000
MaxSourceLen == 100

UserInput == <<"user_input">>

\* Observation IDs: 0 is the empty string, n > 0 a well-formed UUID, n < 0 a
\* string that is not a UUID.
NoID == 0
IsUUID(id) == id > 0
NewUUID(ctr) == 1000 + ctr

NoEnt == [name |-> EmptyStr, entityType |-> EmptyStr, observations |-> << >>]
NoRels == << >>

(***************************************************************************)
(* models.Observation.Validate / models.Entity.Validate: validation that  *)
(* also fills in the missing ID and source.                                *)
(***************************************************************************)
ErrValidation == "validation failed"
ErrAlreadyExists == "already exists"
ErrDoesNotExist == "does not exist"
ErrNotFound == "not found"
ErrUnmarshal == "failed to unmarshal"
OK == "ok"

\* mutant: the text of an observation is not checked
ObservationValidate_NoTextCheck(o, ctr) ==
    LET id  == IF o.id = NoID THEN NewUUID(ctr) ELSE o.id
        c2  == IF o.id = NoID THEN ctr + 1 ELSE ctr
        src == IF o.source = EmptyStr THEN UserInput ELSE o.source
        ok  == /\ IsUUID(id)
               /\ Len(src) >= 1 /\ Len(src) <= MaxSourceLen
    IN  [err |-> IF ok THEN OK ELSE ErrValidation,
         obs |-> [id |-> id, text |-> o.text, source |-> src],
         ctr |-> c2]

ObservationValidate(o, ctr) ==
    LET id  == IF o.id = NoID THEN NewUUID(ctr) ELSE o.id
        c2  == IF o.id = NoID THEN ctr + 1 ELSE ctr
        src == IF o.source = EmptyStr THEN UserInput ELSE o.source
        ok  == /\ IsUUID(id)
               /\ Len(o.text) >= 1 /\ Len(o.text) <= MaxTextLen
               /\ Len(src) >= 1 /\ Len(src) <= MaxSourceLen
    IN  [err |-> IF ok THEN OK ELSE ErrValidation,
         obs |-> [id |-> id, text |-> o.text, source |-> src],
         ctr |-> c2]

RECURSIVE ValidateObservations(_, _, _)
ValidateObservations(obs, i, ctr) ==
    IF i > Len(obs) THEN [err |-> OK, obs |-> obs, ctr |-> ctr]
    ELSE LET r == ObservationValidate(obs[i], ctr)
             obs2 == [obs EXCEPT ![i] = r.obs]
         IN  IF r.err # OK THEN [err |-> r.err, obs |-> obs2, ctr |-> r.ctr]
             ELSE ValidateObservations(obs2, i + 1, r.ctr)

EntityValidate(e, ctr) ==
    LET r  == ValidateObservations(e.observations, 1, ctr)
        e2 == [e EXCEPT !.observations = r.obs]
        ok == /\ Len(e.name) >= 1 /\ Len(e.name) <= MaxNameLen
              /\ Len(e.entityType) >= 1 /\ Len(e.entityType) <= MaxTypeLen
    IN  [err |-> IF r.err # OK THEN r.err ELSE IF ok THEN OK ELSE ErrValidation,
         ent |-> e2,
         ctr |-> r.ctr]

(***************************************************************************)
(* JSON.  json.Marshal writes every string coerced to valid UTF-8 (bytes  *)
(* that are not valid UTF-8 become U+FFFD); json.Unmarshal fails on       *)
(* anything that is not one complete document.                             *)
(***************************************************************************)
ToValidUTF8(s) == [i \in 1..Len(s) |-> IF s[i] = BadByte THEN ReplChar ELSE s[i]]

Absent == [kind |-> "absent"]
EmptyFile == [kind |-> "empty"]
Garbage == [kind |-> "garbage"]

EntityToJSON(e) ==
    [kind |-> "entity",
     name |-> ToValidUTF8(e.name),
     entityType |-> ToValidUTF8(e.entityType),
     observations |-> [i \in 1..Len(e.observations) |->
                          [id |-> e.observations[i].id,
                           text |-> ToValidUTF8(e.observations[i].text),
                           source |-> ToValidUTF8(e.observations[i].source)]]]

\* mutant: the decode error is dropped
EntityFromJSON_NoError(data) ==
    IF data.kind = "entity"
    THEN [err |-> OK,
          ent |-> [name |-> data.name, entityType |-> data.entityType,
                   observations |-> data.observations]]
    ELSE [err |-> OK, ent |-> NoEnt]

EntityFromJSON(data) ==
    IF data.kind = "entity"
    THEN [err |-> OK,
          ent |-> [name |-> data.name, entityType |-> data.entityType,
                   observations |-> data.observations]]
    ELSE IF data.kind = "relations"
    THEN [err |-> OK, ent |-> NoEnt]
    ELSE [err |-> ErrUnmarshal, ent |-> NoEnt]

\* mutant: nothing is written for the relations
RelationsToJSON_Empty(rs) == [kind |-> "relations", relations |-> << >>]

RelationsToJSON(rs) ==
    [kind |-> "relations",
     relations |-> [i \in 1..Len(rs) |->
                       [id |-> rs[i].id,
                        from |-> ToValidUTF8(rs[i].from),
                        to |-> ToValidUTF8(rs[i].to),
                        relationType |-> ToValidUTF8(rs[i].relationType)]]]

RelationsFromJSON(data) ==
    IF data.kind = "relations" THEN [err |-> OK, rels |-> data.relations]
    ELSE IF data.kind = "entity" THEN [err |-> OK, rels |-> NoRels]
    ELSE [err |-> ErrUnmarshal, rels |-> NoRels]


(***************************************************************************)
(* Inputs the callers pass.                                                *)
(***************************************************************************)
NameA == <<"a">>
NameB == <<"b">>
AllNames == {NameA, NameB}
\* os.ReadDir returns the directory entries sorted by file name
NamesSorted == <<NameA, NameB>>

Obs(id, text, source) == [id |-> id, text |-> text, source |-> source]
Ent(name, type, obs) == [name |-> name, entityType |-> type, observations |-> obs]
Rel(id, from, to, type) == [id |-> id, from |-> from, to |-> to, relationType |-> type]

TypeG == <<"g">>
TypeP == <<"p">>

(***************************************************************************)
(* Objects.  The store and its callers hold *models.Entity pointers: the  *)
(* cache keeps the pointer it was given or that loadEntityFile returned,  *)
(* and GetEntity returns the pointer the cache keeps.  In the scenarios   *)
(* with cfg.heap an entity value carries the identity of its object, and  *)
(* an assignment to a field of an object changes every copy of the        *)
(* pointer: the cache entry, the arguments and the results of the calls.  *)
(***************************************************************************)
HasObj(e) == "obj" \in DOMAIN e
IsObj(e, k) == HasObj(e) /\ e.obj = k
WithObj(e, k) == [obj |-> k, name |-> e.name, entityType |-> e.entityType,
                  observations |-> e.observations]
\* the value of the object: what ToJSON writes of it
Val(e) == Ent(e.name, e.entityType, e.observations)

\* e after the assignment of v's fields to the object k
Assigned(e, k, v) ==
    IF IsObj(e, k)
    THEN [e EXCEPT !.entityType = v.entityType, !.observations = v.observations]
    ELSE e

(***************************************************************************)
(* Paths and locks                                                         *)
(***************************************************************************)
getEntityFilePath(name) == <<"entities", name>>
RelationsPath == <<"relations", <<"relations.json">>>>
AllPaths == {getEntityFilePath(n) : n \in AllNames} \cup {RelationsPath}

FileAt(path) == IF path = RelationsPath THEN relFile ELSE files[path[2]]

\* mutants: the existence check answers without looking at the file
EntityExists_Never(name) == FALSE
EntityExists_Always(name) == TRUE

\* the longest file name the file system accepts (NAME_MAX), in bytes
NameMax == 255
JsonExt == <<".", "j", "s", "o", "n">>
ENOENT == "ENOENT"
ENAMETOOLONG == "ENAMETOOLONG"

\* os.Stat(filePath) of the entity file of name: the error it returns
Stat(name) ==
    IF Len(name) + Len(JsonExt) > NameMax THEN ENAMETOOLONG
    ELSE IF files[name].kind = "absent" THEN ENOENT
    ELSE OK

os_IsNotExist(err) == err = ENOENT

\* _, err := os.Stat(filePath); return !os.IsNotExist(err)
EntityExists(name) == ~os_IsNotExist(Stat(name))

FreeLock == [w |-> 0, r |-> {}]
\* mutant: a writer does not wait for the readers
CanLock_IgnoresReaders(l) == l.w = 0

\* sync.RWMutex: Lock waits until no reader and no writer holds the lock,
\* RLock until no writer holds it
CanLock(l) == l.w = 0 /\ l.r = {}
\* mutant: the lock is never released
Unlock_Leak(l, t) == l
CanRLock(l) == l.w = 0
Lock(l, t) == [l EXCEPT !.w = t]
RLock(l, t) == [l EXCEPT !.r = @ \cup {t}]
Unlock(l, t) == [l EXCEPT !.w = 0]
\* mutant: the read lock is never released
RUnlock_Leak(l, t) == l
RUnlock(l, t) == [l EXCEPT !.r = @ \ {t}]

(***************************************************************************)
(* Bookkeeping shared by the actions                                       *)
(***************************************************************************)
NoOp == [kind |-> "none", name |-> EmptyStr, ent |-> NoEnt, rels |-> NoRels,
         filter |-> EmptyStr, query |-> EmptyStr, id |-> NoID]
NoLoc == [path |-> RelationsPath, mode |-> "none", lock |-> 0, cur |-> EmptyStr,
          ent |-> NoEnt, rels |-> NoRels, err |-> OK, todo |-> << >>, acc |-> << >>]
NoRes == [kind |-> "none", name |-> EmptyStr, err |-> OK, ent |-> NoEnt,
          rels |-> NoRels, list |-> << >>, hit |-> FALSE, exists |-> FALSE,
          removed |-> FALSE]
NotCached == [in |-> FALSE, ent |-> NoEnt]
\* mutant: the cache entry does not hold the entity
Cached_Empty(e) == [in |-> TRUE, ent |-> NoEnt]
Cached(e) == [in |-> TRUE, ent |-> e]
EmptyCache == [n \in AllNames |-> NotCached]
\* mutant: the entry stays in the cache
delete_Keep(cache, name) == cache
\* delete(fs.entityCache, name)
delete(cache, name) == [cache EXCEPT ![name] = NotCached]

NoSnap == [on |-> FALSE]

TakeSnap == IF cfg.snap
            THEN [on |-> TRUE, files |-> files, cache |-> entityCache, relFile |-> relFile,
                  relationCache |-> relationCache, relCached |-> hist.relCached]
            ELSE NoSnap

CanStart(t) == /\ t \in cfg.threads
               /\ pc[t] = "idle"
               /\ nops[t] < cfg.maxOps

\* the call of an operation: its arguments, its first position
Begin(t, o, l, label) ==
    /\ op' = [op EXCEPT ![t] = o]
    /\ loc' = [loc EXCEPT ![t] = l]
    /\ pc' = [pc EXCEPT ![t] = label]
    /\ snap' = [snap EXCEPT ![t] = TakeSnap]
    /\ nops' = [nops EXCEPT ![t] = @ + 1]
    /\ ctxDone' = [ctxDone EXCEPT ![t] = FALSE]

\* the return of an operation
Return(t, r) ==
    /\ pc' = [pc EXCEPT ![t] = "idle"]
    /\ res' = [res EXCEPT ![t] = [r EXCEPT !.kind = op[t].kind, !.name = op[t].name]]
    /\ loc' = [loc EXCEPT ![t] = NoLoc]

Goto(t, label) == pc' = [pc EXCEPT ![t] = label]

UNCHANGED_store == UNCHANGED <<files, relFile, entityCache, relationCache>>
UNCHANGED_locks == UNCHANGED <<cacheMutex, fileLocks, lockObjs, lockMutex>>
UNCHANGED_call == UNCHANGED <<op, snap, nops, ctxDone, cfg, uuidCtr>>


(***************************************************************************)
(* getFileLock(filePath): under fs.lockMutex, the lock of the path,       *)
(* created on the first access.                                            *)
(***************************************************************************)
GetFileLockEnter(t) ==
    /\ pc[t] = "gfl_lock"
    /\ lockMutex = 0
    /\ lockMutex' = t
    /\ Goto(t, "gfl_body")
    /\ UNCHANGED <<cacheMutex, fileLocks, lockObjs, loc, res, hist>>
    /\ UNCHANGED_store /\ UNCHANGED_call

\* mutant: the map is not consulted
LookupLock_Miss(path) == 0

\* the lock the map holds for the path, or 0
LookupLock(path) == fileLocks[path]

GetFileLockBody(t) ==
    /\ pc[t] = "gfl_body"
    /\ lockMutex = t
    /\ LET path == loc[t].path
           found == LookupLock(path)
           id == IF found # 0 THEN found ELSE Len(lockObjs) + 1
       IN  /\ IF found # 0
              THEN UNCHANGED <<fileLocks, lockObjs>>
              ELSE /\ lockObjs' = Append(lockObjs, FreeLock)
                   /\ fileLocks' = [fileLocks EXCEPT ![path] = id]
           /\ loc' = [loc EXCEPT ![t].lock = id]
    /\ lockMutex' = 0
    /\ Goto(t, IF loc[t].mode = "save" THEN "save_lock" ELSE "load_rlock")
    /\ UNCHANGED <<cacheMutex, res, hist>>
    /\ UNCHANGED_store /\ UNCHANGED_call

(***************************************************************************)
(* saveEntityFile / saveRelationsFile: lock.Lock(); ToJSON; os.WriteFile  *)
(* (open with O_CREATE|O_TRUNC, then write); defer lock.Unlock()          *)
(***************************************************************************)
SetFile(path, content) ==
    IF path = RelationsPath
    THEN /\ relFile' = content
         /\ UNCHANGED files
    ELSE /\ files' = [files EXCEPT ![path[2]] = content]
         /\ UNCHANGED relFile

\* mutant: the observations the file held stay in front of the new ones
SaveData_Merge(t) ==
    IF loc[t].path = RelationsPath
    THEN RelationsToJSON(op[t].rels)
    ELSE LET old == snap[t].files[op[t].name]
         IN  EntityToJSON([op[t].ent EXCEPT !.observations =
                 (IF old.kind = "entity" THEN old.observations ELSE << >>) \o @])

SaveData(t) == IF loc[t].path = RelationsPath
               THEN RelationsToJSON(op[t].rels)
               ELSE EntityToJSON(op[t].ent)

SaveLock(t) ==
    /\ pc[t] = "save_lock"
    /\ CanLock(lockObjs[loc[t].lock])
    /\ lockObjs' = [lockObjs EXCEPT ![loc[t].lock] = Lock(@, t)]
    /\ Goto(t, "save_open")
    /\ UNCHANGED <<cacheMutex, fileLocks, lockMutex, loc, res, hist>>
    /\ UNCHANGED_store /\ UNCHANGED_call

SaveOpen(t) ==
    /\ pc[t] = "save_open"
    /\ SetFile(loc[t].path, EmptyFile)
    /\ Goto(t, "save_write")
    /\ UNCHANGED <<entityCache, relationCache, loc, res, hist>>
    /\ UNCHANGED_locks /\ UNCHANGED_call

SaveWrite(t) ==
    /\ pc[t] = "save_write"
    /\ SetFile(loc[t].path, SaveData(t))
    /\ hist' = [hist EXCEPT !.wrote = @ \cup {SaveData(t)}]
    /\ Goto(t, "save_unlock")
    /\ UNCHANGED <<entityCache, relationCache, loc, res>>
    /\ UNCHANGED_locks /\ UNCHANGED_call

SaveUnlock(t) ==
    /\ pc[t] = "save_unlock"
    /\ lockObjs' = [lockObjs EXCEPT ![loc[t].lock] = Unlock(@, t)]
    /\ IF op[t].kind = "Initialize"
       THEN Return(t, NoRes)    \* saveRelationsFile was called by Initialize
       ELSE Goto(t, "cache_lock") /\ UNCHANGED <<loc, res>>
    /\ UNCHANGED <<cacheMutex, fileLocks, lockMutex, hist>>
    /\ UNCHANGED_store /\ UNCHANGED_call


(***************************************************************************)
(* models.Entity.SearchObservations and contains(): strings.Contains of   *)
(* the two strings.ToLower results.  strings.ToLower maps a byte that is  *)
(* not valid UTF-8 to U+FFFD.                                              *)
(***************************************************************************)
ToLowerUnit(c) == CASE c = "A" -> "a"
                    [] c = "G" -> "g"
                    [] c = BadByte -> ReplChar
                    [] OTHER -> c
ToLower(s) == [i \in 1..Len(s) |-> ToLowerUnit(s[i])]

Contains(s, sub) ==
    \E i \in 0..(Len(s) - Len(sub)) : SubSeq(s, i + 1, i + Len(sub)) = sub

\* mutant: the case is not ignored
contains_CaseSensitive(text, searchText) == Contains(text, searchText)

contains(text, searchText) == Contains(ToLower(text), ToLower(searchText))

RECURSIVE FilterObs(_, _, _)
FilterObs(obs, i, q) ==
    IF i > Len(obs) THEN << >>
    ELSE (IF contains(obs[i].text, q) THEN <<obs[i]>> ELSE << >>)
         \o FilterObs(obs, i + 1, q)

EntitySearchObservations(e, q) == FilterObs(e.observations, 1, q)

\* the result tuples of FileStore.SearchObservations for the listed entities
RECURSIVE SearchResults(_, _, _)
SearchResults(ents, i, q) ==
    IF i > Len(ents) THEN << >>
    ELSE LET found == EntitySearchObservations(ents[i], q)
         IN  [k \in 1..Len(found) |->
                 [entityName |-> ents[i].name, entityType |-> ents[i].entityType,
                  observation |-> found[k]]]
             \o SearchResults(ents, i + 1, q)

(***************************************************************************)
(* The end of a GetEntity call: a return to the caller, or the next turn  *)
(* of the loop of ListEntities that called it.                             *)
(***************************************************************************)
GetDone(t, err, ent, hit) ==
    IF op[t].kind = "GetEntity"
    THEN Return(t, [NoRes EXCEPT !.err = err, !.ent = ent, !.hit = hit])
    ELSE LET keep == err = OK /\ (op[t].filter = EmptyStr \/ ent.entityType = op[t].filter)
             acc  == IF keep THEN Append(loc[t].acc, ent) ELSE loc[t].acc
             todo == Tail(loc[t].todo)
         IN  IF todo = << >>
             THEN Return(t, [NoRes EXCEPT !.list =
                     IF op[t].kind = "SearchObservations"
                     THEN SearchResults(acc, 1, op[t].query) ELSE acc])
             ELSE /\ loc' = [loc EXCEPT ![t] = [NoLoc EXCEPT !.todo = todo, !.acc = acc,
                                                             !.cur = Head(todo)]]
                  /\ pc' = [pc EXCEPT ![t] = "get_rlock"]
                  /\ UNCHANGED res

(***************************************************************************)
(* loadEntityFile / loadRelationsFile: lock.RLock(); os.ReadFile;         *)
(* FromJSON; defer lock.RUnlock()                                          *)
(***************************************************************************)
LoadRLock(t) ==
    /\ pc[t] = "load_rlock"
    /\ CanRLock(lockObjs[loc[t].lock])
    /\ lockObjs' = [lockObjs EXCEPT ![loc[t].lock] = RLock(@, t)]
    /\ Goto(t, "load_read")
    /\ UNCHANGED <<cacheMutex, fileLocks, lockMutex, loc, res, hist>>
    /\ UNCHANGED_store /\ UNCHANGED_call

LoadRead(t) ==
    /\ pc[t] = "load_read"
    /\ LET data == FileAt(loc[t].path)
       IN  IF loc[t].path = RelationsPath
           THEN LET r == RelationsFromJSON(data)
                IN  loc' = [loc EXCEPT ![t].err = IF data.kind = "absent" THEN OK ELSE r.err,
                                       ![t].rels = IF data.kind = "absent" THEN NoRels ELSE r.rels]
           ELSE LET r == EntityFromJSON(data)
                    \* var entity models.Entity: a new object
                    new == IF cfg.heap /\ r.err = OK /\ data.kind # "absent"
                           THEN WithObj(r.ent, <<"loaded", t, nops[t], loc[t].cur>>)
                           ELSE r.ent
                IN  loc' = [loc EXCEPT ![t].err = IF data.kind = "absent" THEN ErrNotFound ELSE r.err,
                                       ![t].ent = new]
    /\ Goto(t, "load_runlock")
    /\ UNCHANGED <<res, hist>>
    /\ UNCHANGED_store /\ UNCHANGED_locks /\ UNCHANGED_call

LoadRUnlock(t) ==
    /\ pc[t] = "load_runlock"
    /\ lockObjs' = [lockObjs EXCEPT ![loc[t].lock] = RUnlock(@, t)]
    /\ IF loc[t].err = OK
       THEN Goto(t, "cache_lock") /\ UNCHANGED <<loc, res>>
       ELSE IF op[t].kind = "GetRelations"
            THEN Return(t, [NoRes EXCEPT !.err = loc[t].err])
            ELSE GetDone(t, loc[t].err, NoEnt, FALSE)
    /\ UNCHANGED <<cacheMutex, fileLocks, lockMutex, hist>>
    /\ UNCHANGED_store /\ UNCHANGED_call

(***************************************************************************)
(* The cache check that opens GetEntity and GetRelations                   *)
(***************************************************************************)
CacheRLock(t) ==
    /\ pc[t] = "get_rlock"
    /\ CanRLock(cacheMutex)
    /\ cacheMutex' = RLock(cacheMutex, t)
    /\ Goto(t, "get_check")
    /\ UNCHANGED <<fileLocks, lockObjs, lockMutex, loc, res, hist>>
    /\ UNCHANGED_store /\ UNCHANGED_call

\* fs.relationCache != nil && len(fs.relationCache.Relations) > 0
RelationCacheHit(rc) == Len(rc) > 0

\* the pointers to relation sets (cfg.heap): GetRelations returns the pointer
\* the cache holds or caches the pointer loadRelationsFile returned, and
\* SaveRelations caches the pointer it was given
PtrReturned(h, t) == IF cfg.heap THEN [h EXCEPT !.relPtr[t] = h.cachePtr] ELSE h
PtrLoaded(h, t) == IF cfg.heap THEN [h EXCEPT !.relPtr[t] = t, !.cachePtr = t] ELSE h
PtrSaved(h, t) == IF cfg.heap THEN [h EXCEPT !.cachePtr = h.relPtr[t]] ELSE h

CacheCheck(t) ==
    /\ pc[t] = "get_check"
    /\ cacheMutex' = RUnlock(cacheMutex, t)
    /\ IF op[t].kind = "GetRelations"
       THEN IF RelationCacheHit(relationCache)
            THEN Return(t, [NoRes EXCEPT !.rels = relationCache, !.hit = TRUE])
            ELSE /\ loc' = [loc EXCEPT ![t].path = RelationsPath, ![t].mode = "load"]
                 /\ Goto(t, "gfl_lock")
                 /\ UNCHANGED res
       ELSE IF entityCache[loc[t].cur].in
            THEN GetDone(t, OK, entityCache[loc[t].cur].ent, TRUE)
            ELSE /\ loc' = [loc EXCEPT ![t].path = getEntityFilePath(loc[t].cur),
                                       ![t].mode = "load"]
                 /\ Goto(t, "gfl_lock")
                 /\ UNCHANGED res
    /\ hist' = IF op[t].kind = "GetRelations" /\ RelationCacheHit(relationCache)
               THEN PtrReturned(hist, t) ELSE hist
    /\ UNCHANGED <<fileLocks, lockObjs, lockMutex>>
    /\ UNCHANGED_store /\ UNCHANGED_call


(***************************************************************************)
(* The cache update that closes CreateEntity, GetEntity (on a miss),      *)
(* UpdateEntity, DeleteEntity, GetRelations (on a miss), SaveRelations    *)
(* and is the whole of ClearCache: cacheMutex.Lock(); ...; Unlock()       *)
(***************************************************************************)
CacheLock(t) ==
    /\ pc[t] = "cache_lock"
    /\ CanLock(cacheMutex)
    /\ cacheMutex' = Lock(cacheMutex, t)
    /\ Goto(t, "cache_set")
    /\ UNCHANGED <<fileLocks, lockObjs, lockMutex, loc, res, hist>>
    /\ UNCHANGED_store /\ UNCHANGED_call

CacheSet(t) ==
    /\ pc[t] = "cache_set"
    /\ cacheMutex' = Unlock(cacheMutex, t)
    /\ LET k == op[t].kind IN
       CASE k \in {"CreateEntity", "UpdateEntity"} ->
              /\ entityCache' = [entityCache EXCEPT ![op[t].name] = Cached(op[t].ent)]
              /\ hist' = IF k = "CreateEntity"
                          THEN [hist EXCEPT !.okCreates[op[t].name] = @ + 1,
                                            !.created[op[t].name] = op[t].ent]
                          ELSE hist
              /\ Return(t, NoRes)
              /\ UNCHANGED relationCache
         [] k = "DeleteEntity" ->
              /\ entityCache' = delete(entityCache, op[t].name)
              /\ Return(t, NoRes)
              /\ UNCHANGED <<relationCache, hist>>
         [] k = "ClearCache" ->
              /\ entityCache' = EmptyCache
              /\ relationCache' = NoRels
              /\ hist' = [hist EXCEPT !.relCached = FALSE, !.cachePtr = 0]
              /\ Return(t, NoRes)
         [] k = "GetRelations" ->
              /\ relationCache' = loc[t].rels
              /\ hist' = PtrLoaded([hist EXCEPT !.relCached = TRUE], t)
              /\ Return(t, [NoRes EXCEPT !.rels = loc[t].rels])
              /\ UNCHANGED entityCache
         [] k = "SaveRelations" ->
              /\ relationCache' = op[t].rels
              /\ hist' = PtrSaved([hist EXCEPT !.relCached = TRUE, !.saved = op[t].rels], t)
              /\ Return(t, NoRes)
              /\ UNCHANGED entityCache
         [] OTHER ->  \* GetEntity, also inside ListEntities and SearchObservations
              /\ entityCache' = [entityCache EXCEPT ![loc[t].cur] = Cached(loc[t].ent)]
              /\ GetDone(t, OK, loc[t].ent, FALSE)
              /\ UNCHANGED <<relationCache, hist>>
    /\ UNCHANGED <<files, relFile, fileLocks, lockObjs, lockMutex>>
    /\ UNCHANGED_call

(***************************************************************************)
(* The calls.  A call runs to its first blocking lock operation: the      *)
(* validation, the os.Stat of EntityExists, the os.Remove of DeleteEntity *)
(* and the os.ReadDir of ListEntities take no lock.                       *)
(***************************************************************************)
\* an operation that returns before it takes any lock
BeginReturn(t, o, r) ==
    /\ op' = [op EXCEPT ![t] = o]
    /\ res' = [res EXCEPT ![t] = [r EXCEPT !.kind = o.kind, !.name = o.name]]
    /\ snap' = [snap EXCEPT ![t] = TakeSnap]
    /\ nops' = [nops EXCEPT ![t] = @ + 1]
    /\ ctxDone' = [ctxDone EXCEPT ![t] = FALSE]
    /\ UNCHANGED <<pc, loc>>

\* CreateEntity and UpdateEntity of entity e up to saveEntityFile; ctr is the
\* number of UUIDs generated before the call
StartWriteFrom(t, kind, e, ctr) ==
    /\ LET v == EntityValidate(e, ctr)
           o == [NoOp EXCEPT !.kind = kind, !.name = e.name, !.ent = v.ent]
           exists == EntityExists(e.name)
       IN  /\ uuidCtr' = v.ctr
           /\ IF v.err # OK
              THEN BeginReturn(t, o, [NoRes EXCEPT !.err = v.err])
              ELSE IF kind = "CreateEntity" /\ exists
              THEN BeginReturn(t, o, [NoRes EXCEPT !.err = ErrAlreadyExists])
              ELSE IF kind = "UpdateEntity" /\ ~exists
              THEN BeginReturn(t, o, [NoRes EXCEPT !.err = ErrDoesNotExist])
              ELSE /\ Begin(t, o, [NoLoc EXCEPT !.path = getEntityFilePath(e.name),
                                                !.mode = "save"], "gfl_lock")
                   /\ UNCHANGED res
    /\ UNCHANGED <<hist, cfg>>
    /\ UNCHANGED_store /\ UNCHANGED_locks

StartWrite(t, kind) ==
    /\ CanStart(t)
    /\ \E e \in cfg.ents : StartWriteFrom(t, kind, e, uuidCtr)

CreateEntity(t) == StartWrite(t, "CreateEntity")

UpdateEntity(t) == StartWrite(t, "UpdateEntity")

\* the call GetEntity(ctx, n)
GetEntityOf(t, n) ==
    /\ Begin(t, [NoOp EXCEPT !.kind = "GetEntity", !.name = n],
             [NoLoc EXCEPT !.cur = n], "get_rlock")
    /\ UNCHANGED <<res, hist, cfg, uuidCtr>>
    /\ UNCHANGED_store /\ UNCHANGED_locks

GetEntity(t) ==
    /\ CanStart(t)
    /\ \E n \in cfg.names : GetEntityOf(t, n)

\* the call EntityExists(n): os.Stat, no lock
EntityExistsOf(t, n) ==
    /\ BeginReturn(t, [NoOp EXCEPT !.kind = "EntityExists", !.name = n],
                   [NoRes EXCEPT !.exists = EntityExists(n)])
    /\ UNCHANGED <<hist, cfg, uuidCtr>>
    /\ UNCHANGED_store /\ UNCHANGED_locks

\* a caller's call of EntityExists
EntityExistsCall(t) ==
    /\ CanStart(t)
    /\ \E n \in cfg.probes : EntityExistsOf(t, n)

\* the call DeleteEntity(ctx, n).  os.Remove(filePath): a missing file is not
\* an error
DeleteEntityOf(t, n) ==
    /\ files' = [files EXCEPT ![n] = Absent]
    /\ hist' = [hist EXCEPT !.okCreates[n] = 0]
    /\ Begin(t, [NoOp EXCEPT !.kind = "DeleteEntity", !.name = n], NoLoc, "cache_lock")
    /\ UNCHANGED <<relFile, entityCache, relationCache, res, cfg, uuidCtr>>
    /\ UNCHANGED_locks

DeleteEntity(t) ==
    /\ CanStart(t)
    /\ \E n \in cfg.names : DeleteEntityOf(t, n)

ClearCache(t) ==
    /\ CanStart(t)
    /\ Begin(t, [NoOp EXCEPT !.kind = "ClearCache"], NoLoc, "cache_lock")
    /\ UNCHANGED <<res, hist, cfg, uuidCtr>>
    /\ UNCHANGED_store /\ UNCHANGED_locks

\* mutant: every name is listed, with or without file
DirNames_All(i) == NamesSorted

\* the names of the .json files os.ReadDir finds, in directory order
RECURSIVE DirNames(_)
DirNames(i) ==
    IF i > Len(NamesSorted) THEN << >>
    ELSE (IF files[NamesSorted[i]].kind # "absent" THEN <<NamesSorted[i]>> ELSE << >>)
         \o DirNames(i + 1)

StartList(t, kind) ==
    /\ CanStart(t)
    /\ \E f \in cfg.filters, q \in (IF kind = "ListEntities" THEN {EmptyStr} ELSE cfg.queries) :
         LET o == [NoOp EXCEPT !.kind = kind, !.filter = f, !.query = q]
             todo == DirNames(1)
         IN  IF todo = << >>
             THEN BeginReturn(t, o, NoRes)
             ELSE /\ Begin(t, o, [NoLoc EXCEPT !.todo = todo, !.cur = Head(todo)], "get_rlock")
                  /\ UNCHANGED res
    /\ UNCHANGED <<hist, cfg, uuidCtr>>
    /\ UNCHANGED_store /\ UNCHANGED_locks

ListEntities(t) == StartList(t, "ListEntities")

SearchObservations(t) == StartList(t, "SearchObservations")

\* mutant: the relations file is taken to be missing
RelationsFileExists_Never == FALSE

\* _, err := os.Stat(fs.relationsFile); !os.IsNotExist(err)
RelationsFileExists == relFile.kind # "absent"

\* Initialize (also Connect): the directories are made if missing, and the
\* empty relation set is saved if there is no relations file
Initialize(t) ==
    /\ CanStart(t)
    /\ LET o == [NoOp EXCEPT !.kind = "Initialize", !.rels = NoRels]
       IN  IF RelationsFileExists
           THEN BeginReturn(t, o, NoRes)
           ELSE /\ Begin(t, o, [NoLoc EXCEPT !.path = RelationsPath, !.mode = "save"],
                         "gfl_lock")
                /\ UNCHANGED res
    /\ UNCHANGED <<hist, cfg, uuidCtr>>
    /\ UNCHANGED_store /\ UNCHANGED_locks

\* the call GetRelations(ctx)
GetRelationsOf(t) ==
    /\ Begin(t, [NoOp EXCEPT !.kind = "GetRelations"], NoLoc, "get_rlock")
    /\ UNCHANGED <<res, hist, cfg, uuidCtr>>
    /\ UNCHANGED_store /\ UNCHANGED_locks

GetRelations(t) ==
    /\ CanStart(t)
    /\ GetRelationsOf(t)

\* the call SaveRelations(ctx, rs); ctr is the number of UUIDs the caller has
\* generated when it makes the call
SaveRelationsFrom(t, rs, ctr) ==
    /\ Begin(t, [NoOp EXCEPT !.kind = "SaveRelations", !.rels = rs],
             [NoLoc EXCEPT !.path = RelationsPath, !.mode = "save"], "gfl_lock")
    /\ uuidCtr' = ctr
    /\ UNCHANGED <<res, hist, cfg>>
    /\ UNCHANGED_store /\ UNCHANGED_locks

SaveRelations(t) ==
    /\ CanStart(t)
    /\ \E rs \in cfg.rels : SaveRelationsFrom(t, rs, uuidCtr)


(***************************************************************************)
(* The environment: a file changed behind the store's back (between two   *)
(* calls), and a caller that cancels the context of a running call.       *)
(***************************************************************************)
AllIdle == \A t \in Threads : pc[t] = "idle"

OutOfBandEdit ==
    /\ AllIdle
    /\ \E t \in Threads : CanStart(t)
    /\ \E p \in cfg.oobPaths, c \in cfg.oob :
         /\ FileAt(p) # c
         /\ SetFile(p, c)
         /\ hist' = [hist EXCEPT !.okCreates =
                        IF p # RelationsPath /\ c.kind = "absent"
                        THEN [@ EXCEPT ![p[2]] = 0] ELSE @]
    /\ UNCHANGED <<entityCache, relationCache, pc, op, loc, res, snap, nops,
                   uuidCtr, ctxDone, cfg>>
    /\ UNCHANGED_locks

Cancel(t) ==
    /\ pc[t] # "idle"
    /\ ~ctxDone[t]
    /\ ctxDone' = [ctxDone EXCEPT ![t] = TRUE]
    /\ UNCHANGED <<pc, op, loc, res, snap, nops, uuidCtr, hist, cfg>>
    /\ UNCHANGED_store /\ UNCHANGED_locks

(***************************************************************************)
(* Initial states.  NewFileStore: empty entity cache, empty relation      *)
(* cache, no file lock.  Initialize on a new directory writes the empty   *)
(* relations file through saveRelationsFile, which creates its lock.      *)
(***************************************************************************)
NoHist == [wrote |-> {},                             \* documents written to files
           okCreates |-> [n \in AllNames |-> 0],     \* successful creates since the file was last removed
           created |-> [n \in AllNames |-> NoEnt],   \* the entity of the last successful create
           relCached |-> FALSE,                      \* GetRelations/SaveRelations cached a set since the last clear
           saved |-> NoRels,                         \* the set of the last SaveRelations that returned
           lastModified |-> 0,                       \* LastModified of the entity a caller holds: the call that set it
           relPtr |-> [t \in Threads |-> 0],         \* cfg.heap: the *RelationSet a thread holds, named by the thread that loaded it
           cachePtr |-> 0]                           \* cfg.heap: the *RelationSet in fs.relationCache

NoCfg == [threads |-> 1..NumThreads, maxOps |-> MaxOps, ents |-> {}, names |-> {},
          rels |-> {}, filters |-> {EmptyStr}, queries |-> {EmptyStr},
          oob |-> {}, oobPaths |-> {}, snap |-> FALSE,
          handlers |-> {}, facts |-> {}, relHandlers |-> {}, relReqs |-> {},
          probes |-> {}, ids |-> {}, sources |-> {}, delHandlers |-> {},
          heap |-> FALSE, types |-> {}, factHandlers |-> {}, updHandlers |-> {},
          factOf |-> << >>, relOf |-> << >>, updReq |-> [entityType |-> EmptyStr, observations |-> << >>]]

NewFileStore ==
    /\ entityCache = EmptyCache
    /\ relationCache = NoRels
    /\ cacheMutex = FreeLock
    /\ fileLocks = [p \in AllPaths |-> 0]
    /\ lockObjs = << >>
    /\ lockMutex = 0

\* Initialize on a directory that has no relations file
InitializedNew ==
    /\ entityCache = EmptyCache
    /\ relationCache = NoRels
    /\ cacheMutex = FreeLock
    /\ fileLocks = [p \in AllPaths |-> IF p = RelationsPath THEN 1 ELSE 0]
    /\ lockObjs = <<FreeLock>>
    /\ lockMutex = 0
    /\ relFile = RelationsToJSON(NoRels)

NoCalls ==
    /\ pc = [t \in Threads |-> "idle"]
    /\ op = [t \in Threads |-> NoOp]
    /\ loc = [t \in Threads |-> NoLoc]
    /\ res = [t \in Threads |-> NoRes]
    /\ snap = [t \in Threads |-> NoSnap]
    /\ nops = [t \in Threads |-> 0]
    /\ ctxDone = [t \in Threads |-> FALSE]
    /\ uuidCtr = 0
    /\ hist = NoHist

EA1 == Ent(NameA, TypeG, <<Obs(1, <<"x">>, UserInput)>>)
EA2 == Ent(NameA, TypeP, <<Obs(2, <<"y">>, UserInput)>>)

(***************************************************************************)
(* Spec: threads that create, read, update and delete one entity and      *)
(* clear the cache, on a new store.                                        *)
(***************************************************************************)
Init ==
    /\ InitializedNew
    /\ files = [n \in AllNames |-> Absent]
    /\ NoCalls
    /\ cfg = [NoCfg EXCEPT !.ents = {EA1, EA2}, !.names = {NameA}]

SaveSteps(t) ==
    \/ GetFileLockEnter(t)
    \/ GetFileLockBody(t)
    \/ SaveLock(t)
    \/ SaveOpen(t)
    \/ SaveWrite(t)
    \/ SaveUnlock(t)
    \/ CacheLock(t)
    \/ CacheSet(t)

LoadSteps(t) ==
    \/ CacheRLock(t)
    \/ CacheCheck(t)
    \/ LoadRLock(t)
    \/ LoadRead(t)
    \/ LoadRUnlock(t)

Next ==
    \E t \in Threads :
        \/ CreateEntity(t)
        \/ UpdateEntity(t)
        \/ GetEntity(t)
        \/ DeleteEntity(t)
        \/ ClearCache(t)
        \/ SaveSteps(t)
        \/ LoadSteps(t)

Spec == Init /\ [][Next]_vars


(***************************************************************************)
(* C1.  Of the CreateEntity calls for one name, made while the name has   *)
(* no file and with no DeleteEntity in between, at most one returns       *)
(* success.                                                                *)
(***************************************************************************)
C1_AtMostOneCreateSucceeds ==
    \A n \in AllNames : hist.okCreates[n] <= 1

(***************************************************************************)
(* C3.  Every read of a file's content is done under the read lock of its *)
(* path and every modification of a file (overwrite or removal) under the *)
(* write lock of its path.                                                 *)
(***************************************************************************)
HoldsWrite(t, path) ==
    /\ fileLocks[path] # 0
    /\ lockObjs[fileLocks[path]].w = t

HoldsRead(t, path) ==
    /\ fileLocks[path] # 0
    /\ t \in lockObjs[fileLocks[path]].r

C3_PerFileSerialized ==
    [][ /\ \A t \in Threads : pc[t] = "load_read" => HoldsRead(t, loc[t].path)
        /\ \A n \in AllNames :
              files'[n] # files[n] => \E t \in Threads : HoldsWrite(t, getEntityFilePath(n))
        /\ relFile' # relFile => \E t \in Threads : HoldsWrite(t, RelationsPath)
      ]_vars


(***************************************************************************)
(* SpecUpdate: threads that update an entity which CreateEntity(EA1) has  *)
(* stored and cached.                                                      *)
(***************************************************************************)
\* the store after CreateEntity(EA1) on a new store
CreatedEA1 ==
    /\ entityCache = [EmptyCache EXCEPT ![NameA] = Cached(EA1)]
    /\ relationCache = NoRels
    /\ cacheMutex = FreeLock
    /\ fileLocks = [p \in AllPaths |-> IF p = RelationsPath THEN 1
                                       ELSE IF p = getEntityFilePath(NameA) THEN 2 ELSE 0]
    /\ lockObjs = <<FreeLock, FreeLock>>
    /\ lockMutex = 0
    /\ relFile = RelationsToJSON(NoRels)
    /\ files = [n \in AllNames |-> IF n = NameA THEN EntityToJSON(EA1) ELSE Absent]
    /\ pc = [t \in Threads |-> "idle"]
    /\ op = [t \in Threads |-> NoOp]
    /\ loc = [t \in Threads |-> NoLoc]
    /\ res = [t \in Threads |-> NoRes]
    /\ snap = [t \in Threads |-> NoSnap]
    /\ nops = [t \in Threads |-> 0]
    /\ ctxDone = [t \in Threads |-> FALSE]
    /\ uuidCtr = 0
    /\ hist = [NoHist EXCEPT !.wrote = {EntityToJSON(EA1)},
                             !.okCreates[NameA] = 1,
                             !.created[NameA] = EA1]

InitUpdate ==
    /\ CreatedEA1
    /\ cfg = [NoCfg EXCEPT !.ents = {EA1, EA2}, !.names = {NameA}]

NextUpdate ==
    \E t \in Threads :
        \/ UpdateEntity(t)
        \/ SaveSteps(t)

SpecUpdate == InitUpdate /\ [][NextUpdate]_vars

(***************************************************************************)
(* C2.  Once all concurrent UpdateEntity calls on an entity have          *)
(* returned, the cache entry of the entity equals the content of its file.*)
(***************************************************************************)
CacheCoherent(n) ==
    entityCache[n].in => files[n] = EntityToJSON(entityCache[n].ent)

C2_CacheEqualsFileAfterUpdates ==
    AllIdle => \A n \in AllNames : CacheCoherent(n)

(***************************************************************************)
(* SpecRW: writers and readers of one entity.  The store was opened on a  *)
(* directory that holds the entity's file (written by CreateEntity(EA1)   *)
(* in an earlier run), so the cache is empty and the first reads miss it. *)
(***************************************************************************)
InitRW ==
    /\ NewFileStore
    /\ relFile = RelationsToJSON(NoRels)
    /\ files = [n \in AllNames |-> IF n = NameA THEN EntityToJSON(EA1) ELSE Absent]
    /\ pc = [t \in Threads |-> "idle"]
    /\ op = [t \in Threads |-> NoOp]
    /\ loc = [t \in Threads |-> NoLoc]
    /\ res = [t \in Threads |-> NoRes]
    /\ snap = [t \in Threads |-> NoSnap]
    /\ nops = [t \in Threads |-> 0]
    /\ ctxDone = [t \in Threads |-> FALSE]
    /\ uuidCtr = 0
    /\ hist = [NoHist EXCEPT !.wrote = {EntityToJSON(EA1)}]
    /\ cfg = [NoCfg EXCEPT !.threads = 1..RWThreads, !.maxOps = RWOps,
                           !.ents = {EA1, EA2}, !.names = {NameA}]

NextRW ==
    \E t \in Threads :
        \/ UpdateEntity(t)
        \/ GetEntity(t)
        \/ SaveSteps(t)
        \/ LoadSteps(t)

SpecRW == InitRW /\ [][NextRW]_vars

(***************************************************************************)
(* C4.  With the file write split into truncate and write, no GetEntity   *)
(* that runs concurrently with UpdateEntity calls sees an empty or        *)
(* partial file: it returns, without error, a value that CreateEntity or  *)
(* one of the UpdateEntity calls wrote.                                    *)
(***************************************************************************)
C4_ReadersNeverSeeTornFile ==
    \A t \in Threads :
        res[t].kind = "GetEntity" =>
            /\ res[t].err = OK
            /\ EntityToJSON(res[t].ent) \in hist.wrote

\* a GetEntity that missed the cache returned the value of an UpdateEntity
\* while another UpdateEntity was still running
C4_Witness ==
    \E t, u \in Threads :
        /\ res[t].kind = "GetEntity" /\ ~res[t].hit /\ res[t].ent = EA2
        /\ op[u].kind = "UpdateEntity" /\ pc[u] \in {"save_open", "save_write"}


(***************************************************************************)
(* SpecSeq: one thread that makes its calls one after the other on a new  *)
(* store, and files that change behind the store's back between calls.    *)
(***************************************************************************)
EB1 == Ent(NameB, TypeG, <<Obs(3, <<"x", "y">>, UserInput), Obs(4, <<"A">>, <<"s">>)>>)
\* fails validation: no entity type
EBad == Ent(NameA, EmptyStr, << >>)
R1 == Rel(5, NameA, NameB, <<"r">>)

InitSeq ==
    /\ InitializedNew
    /\ files = [n \in AllNames |-> Absent]
    /\ NoCalls
    /\ cfg = [NoCfg EXCEPT !.threads = {1}, !.maxOps = SeqOps,
                           !.ents = {EA1, EA2, EB1, EBad}, !.names = {NameA, NameB},
                           !.rels = {NoRels, <<R1>>},
                           !.filters = {EmptyStr, TypeG}, !.queries = {<<"x">>},
                           !.oob = {Absent, Garbage, RelationsToJSON(<<R1>>)},
                           !.oobPaths = {getEntityFilePath(NameA), RelationsPath},
                           !.snap = TRUE]

NextSeq ==
    \/ OutOfBandEdit
    \/ \E t \in Threads :
        \/ CreateEntity(t)
        \/ UpdateEntity(t)
        \/ GetEntity(t)
        \/ DeleteEntity(t)
        \/ ClearCache(t)
        \/ ListEntities(t)
        \/ SearchObservations(t)
        \/ GetRelations(t)
        \/ SaveRelations(t)
        \/ SaveSteps(t)
        \/ LoadSteps(t)

SpecSeq == InitSeq /\ [][NextSeq]_vars

\* this step is the return of thread t from a call
Returns(t) == pc'[t] = "idle" /\ (pc[t] # "idle" \/ nops'[t] # nops[t])

\* the call that returns in this step was given an entity that passes Validate
ValidArg(t) == res'[t].err # ErrValidation

\* the call that returns in this step changed neither a file nor the cache
NothingChanged(t) ==
    /\ files' = snap'[t].files
    /\ relFile' = snap'[t].relFile
    /\ entityCache' = snap'[t].cache
    /\ relationCache' = snap'[t].relationCache

(***************************************************************************)
(* C5.  Sequentially, CreateEntity of a (valid) entity whose name has a   *)
(* file fails with AlreadyExists and leaves the file and the cache as     *)
(* they were.                                                              *)
(***************************************************************************)
C5_DuplicateCreateFails ==
    [][\A t \in Threads :
          (/\ Returns(t) /\ op'[t].kind = "CreateEntity" /\ ValidArg(t)
           /\ snap'[t].files[op'[t].name].kind # "absent")
          => (res'[t].err = ErrAlreadyExists /\ NothingChanged(t))
      ]_vars

\* a second CreateEntity of a stored name failed, with another entity value,
\* and the file still holds what the first one stored
C5_Witness ==
    \E t \in Threads :
        /\ res[t].kind = "CreateEntity" /\ res[t].err = ErrAlreadyExists
        /\ pc[t] = "idle"
        /\ hist.okCreates[res[t].name] = 1
        /\ op[t].ent # hist.created[res[t].name]
        /\ files[res[t].name] = EntityToJSON(hist.created[res[t].name])
        /\ entityCache[res[t].name] = Cached(hist.created[res[t].name])

(***************************************************************************)
(* C6.  UpdateEntity of a (valid) entity whose name has no file fails     *)
(* with NotFound and changes nothing: no file is created and the cache    *)
(* keeps its entries.                                                      *)
(***************************************************************************)
IsNotFoundCondition(err) == err \in {ErrDoesNotExist, ErrNotFound}

C6_UpdateMissingFails ==
    [][\A t \in Threads :
          (/\ Returns(t) /\ op'[t].kind = "UpdateEntity" /\ ValidArg(t)
           /\ snap'[t].files[op'[t].name].kind = "absent")
          => (IsNotFoundCondition(res'[t].err) /\ NothingChanged(t))
      ]_vars

\* an UpdateEntity failed on a name without file whose old value is still cached
C6_Witness ==
    \E t \in Threads :
        /\ res[t].kind = "UpdateEntity" /\ res[t].err = ErrDoesNotExist
        /\ pc[t] = "idle"
        /\ files[res[t].name] = Absent
        /\ entityCache[res[t].name].in
        /\ entityCache[res[t].name].ent # op[t].ent

(***************************************************************************)
(* C7.  GetEntity(name): the cached value when name is cached; otherwise  *)
(* NotFound when the file is absent, a decode error when the file is not  *)
(* valid JSON, and the decoded entity, which it caches, when the file is  *)
(* valid.  A failed GetEntity caches nothing and leaves the file alone.   *)
(***************************************************************************)
IsJSONDocument(data) == data.kind \in {"entity", "relations"}

C7_GetEntityContract ==
    [][\A t \in Threads :
          (Returns(t) /\ op'[t].kind = "GetEntity") =>
             LET n == op'[t].name
                 c == snap'[t].cache[n]
                 f == snap'[t].files[n]
                 r == res'[t]
             IN  /\ files' = snap'[t].files
                 /\ relFile' = snap'[t].relFile
                 /\ IF c.in
                    THEN r.err = OK /\ r.ent = c.ent /\ entityCache' = snap'[t].cache
                    ELSE IF f.kind = "absent"
                    THEN r.err = ErrNotFound /\ entityCache' = snap'[t].cache
                    ELSE IF ~IsJSONDocument(f)
                    THEN r.err = ErrUnmarshal /\ entityCache' = snap'[t].cache
                    ELSE /\ r.err = OK
                         /\ EntityToJSON(r.ent) = (IF f.kind = "entity" THEN f
                                                   ELSE EntityToJSON(NoEnt))
                         /\ entityCache' = [snap'[t].cache EXCEPT ![n] = Cached(r.ent)]
      ]_vars

\* a GetEntity failed to decode a file, which is still there, and cached nothing
C7_Witness ==
    \E t \in Threads :
        /\ res[t].kind = "GetEntity" /\ res[t].err = ErrUnmarshal
        /\ pc[t] = "idle"
        /\ files[res[t].name] = Garbage
        /\ ~entityCache[res[t].name].in

(***************************************************************************)
(* C8.  A cached entity, and the cached relation set (empty or not),      *)
(* stays in the cache until ClearCache or a write of the store replaces   *)
(* it, and GetEntity / GetRelations return it whatever the file holds.    *)
(***************************************************************************)
StoreWrites == {"CreateEntity", "UpdateEntity", "DeleteEntity", "ClearCache"}

C8_CacheEntriesPersist ==
    [][ /\ \A t \in Threads :
              (Returns(t) /\ op'[t].kind = "GetEntity" /\ snap'[t].cache[op'[t].name].in)
              => (res'[t].err = OK /\ res'[t].ent = snap'[t].cache[op'[t].name].ent)
        /\ \A t \in Threads :
              (Returns(t) /\ op'[t].kind = "GetRelations" /\ snap'[t].relCached)
              => (res'[t].err = OK /\ res'[t].rels = snap'[t].relationCache)
        /\ \A n \in AllNames :
              (entityCache[n].in /\ entityCache'[n] # entityCache[n])
              => \E t \in Threads : pc[t] = "cache_set" /\ op[t].kind \in StoreWrites
        /\ (hist.relCached /\ relationCache' # relationCache)
              => \E t \in Threads : pc[t] = "cache_set"
                                    /\ op[t].kind \in {"SaveRelations", "ClearCache"}
      ]_vars


(***************************************************************************)
(* SpecRoundTrip: one thread that creates entities, clears the cache and  *)
(* reads entities back.  The entities have zero, one and two              *)
(* observations, with and without ID and source, and one has a text that  *)
(* is not valid UTF-8.                                                     *)
(***************************************************************************)
ERT0 == Ent(NameA, TypeG, << >>)
ERT1 == Ent(NameB, TypeP, <<Obs(NoID, <<"x">>, EmptyStr), Obs(7, <<"y", "A">>, <<"s">>)>>)
ERT2 == Ent(NameA, TypeG, <<Obs(8, <<"x", BadByte>>, UserInput)>>)

InitRoundTrip ==
    /\ InitializedNew
    /\ files = [n \in AllNames |-> Absent]
    /\ NoCalls
    /\ cfg = [NoCfg EXCEPT !.threads = {1}, !.maxOps = RTOps,
                           !.ents = {ERT0, ERT1, ERT2}, !.names = {NameA, NameB}]

NextRoundTrip ==
    \E t \in Threads :
        \/ CreateEntity(t)
        \/ ClearCache(t)
        \/ GetEntity(t)
        \/ SaveSteps(t)
        \/ LoadSteps(t)

SpecRoundTrip == InitRoundTrip /\ [][NextRoundTrip]_vars

(***************************************************************************)
(* C9.  CreateEntity, then ClearCache, then GetEntity of the same name    *)
(* returns an entity equal to the created one (as Validate left it) in    *)
(* name, entity type and the sequence of observations (id, text, source). *)
(***************************************************************************)
C9_RoundTrip ==
    \A t \in Threads :
        (/\ res[t].kind = "GetEntity" /\ res[t].err = OK /\ ~res[t].hit
         /\ hist.okCreates[res[t].name] = 1)
        => res[t].ent = hist.created[res[t].name]

(***************************************************************************)
(* SpecLive: threads that make any of the calls on a store that holds one *)
(* entity, and callers that cancel the context of a running call.  The Go *)
(* scheduler runs every thread that can take a step.                      *)
(***************************************************************************)
InitLive ==
    /\ CreatedEA1
    /\ cfg = [NoCfg EXCEPT !.maxOps = LiveOps, !.ents = {EA2}, !.names = {NameA},
                           !.rels = {<<R1>>}, !.queries = {<<"x">>}]

Steps(t) == SaveSteps(t) \/ LoadSteps(t)

NextLive ==
    \E t \in Threads :
        \/ CreateEntity(t)
        \/ UpdateEntity(t)
        \/ GetEntity(t)
        \/ DeleteEntity(t)
        \/ ClearCache(t)
        \/ ListEntities(t)
        \/ SearchObservations(t)
        \/ GetRelations(t)
        \/ SaveRelations(t)
        \/ Cancel(t)
        \/ SaveSteps(t)
        \/ LoadSteps(t)

SpecLive == InitLive /\ [][NextLive]_vars /\ \A t \in Threads : WF_vars(Steps(t))

(***************************************************************************)
(* C10.  Every call that was started returns, also when its context is    *)
(* cancelled while it runs.                                                *)
(***************************************************************************)
C10_EveryCallReturns ==
    \A t \in Threads : (pc[t] # "idle") ~> (pc[t] = "idle")

\* a call whose context was cancelled waits for a file lock another call holds
C10_Witness ==
    \E t, u \in Threads :
        /\ t # u
        /\ ctxDone[t]
        /\ pc[t] \in {"save_lock", "load_rlock"}
        /\ lockObjs[loc[t].lock].w = u

(***************************************************************************)
(* C11.  No thread holds the cache lock (for reading or writing) and a    *)
(* file lock (for reading or writing) at the same time.                    *)
(***************************************************************************)
HoldsCacheLock(t) == cacheMutex.w = t \/ t \in cacheMutex.r

HoldsFileLock(t) ==
    \E i \in 1..Len(lockObjs) : lockObjs[i].w = t \/ t \in lockObjs[i].r

C11_NeverBothLocks ==
    \A t \in Threads : ~(HoldsCacheLock(t) /\ HoldsFileLock(t))

\* a call that took and released a file lock holds the cache lock while
\* another call holds a file lock
C11_Witness ==
    \E t, u \in Threads :
        /\ t # u
        /\ pc[t] = "cache_set" /\ op[t].kind \in {"UpdateEntity", "GetRelations"}
        /\ HoldsCacheLock(t)
        /\ HoldsFileLock(u)

InitGetDelete ==
    /\ NewFileStore
    /\ relFile = RelationsToJSON(NoRels)
    /\ files = [n \in AllNames |-> IF n = NameA THEN EntityToJSON(EA1) ELSE Absent]
    /\ NoCalls
    /\ cfg = [NoCfg EXCEPT !.names = {NameA}]

NextGetDelete ==
    \E t \in Threads :
        \/ GetEntity(t)
        \/ ListEntities(t)
        \/ DeleteEntity(t)
        \/ GetFileLockEnter(t)
        \/ GetFileLockBody(t)
        \/ LoadSteps(t)
        \/ CacheLock(t)
        \/ CacheSet(t)

SpecGetDelete == InitGetDelete /\ [][NextGetDelete]_vars

(***************************************************************************)
(* C13.  A deleted entity is not served from the cache: when no call is   *)
(* in progress, a name that has a cache entry has a file, also after a    *)
(* GetEntity or ListEntities ran concurrently with the DeleteEntity.      *)
(***************************************************************************)
C13_DeletedNeverCached ==
    AllIdle => \A n \in AllNames : entityCache[n].in => files[n].kind # "absent"

(***************************************************************************)
(* The error taxonomy of package storage.  An error value is a chain: the *)
(* error itself and the errors it wraps with %w.  errors.Is(err, target)  *)
(* looks for target in the chain of err.  The errors of the file store    *)
(* are made by fmt.Errorf: the "already exists", "does not exist" and     *)
(* "not found" errors wrap nothing, the validation and the decode errors  *)
(* wrap the error of the validator and of encoding/json.                   *)
(***************************************************************************)
storage_ErrNotFound == "storage.ErrNotFound"
storage_ErrAlreadyExists == "storage.ErrAlreadyExists"

ErrorChain(err) ==
    CASE err = ErrValidation -> {ErrValidation, "validator.ValidationErrors"}
      [] err = ErrUnmarshal -> {ErrUnmarshal, "json.SyntaxError"}
      [] OTHER -> {err}

errors_Is(err, target) == target \in ErrorChain(err)

IsNotFound(err) == errors_Is(err, storage_ErrNotFound)

IsAlreadyExists(err) == errors_Is(err, storage_ErrAlreadyExists)

(***************************************************************************)
(* C14.  The error CreateEntity returns for a name that has a file is an  *)
(* AlreadyExists error (storage.IsAlreadyExists), the error GetEntity and *)
(* UpdateEntity return for a missing name is a NotFound error             *)
(* (storage.IsNotFound), and a validation error is neither.               *)
(***************************************************************************)
C14_ErrorsCarryTaxonomy ==
    [][\A t \in Threads :
          Returns(t) =>
             /\ (/\ op'[t].kind = "CreateEntity" /\ ValidArg(t)
                 /\ snap'[t].files[op'[t].name].kind # "absent")
                => IsAlreadyExists(res'[t].err)
             /\ (/\ op'[t].kind = "UpdateEntity" /\ ValidArg(t)
                 /\ snap'[t].files[op'[t].name].kind = "absent")
                => IsNotFound(res'[t].err)
             /\ (/\ op'[t].kind = "GetEntity"
                 /\ ~snap'[t].cache[op'[t].name].in
                 /\ snap'[t].files[op'[t].name].kind = "absent")
                => IsNotFound(res'[t].err)
             /\ (res'[t].err = ErrValidation)
                => (~IsNotFound(res'[t].err) /\ ~IsAlreadyExists(res'[t].err))
      ]_vars

(***************************************************************************)
(* SpecValidate: one thread that creates and updates entities, some of    *)
(* which fail validation: no name, no type, a name of 201 characters, a   *)
(* type of 101, an observation without text and one with a text of 1001.  *)
(***************************************************************************)
Repeat(c, n) == [i \in 1..n |-> c]

ENoName == Ent(EmptyStr, TypeG, << >>)
ELongName == Ent(Repeat("n", MaxNameLen + 1), TypeG, << >>)
ELongType == Ent(NameA, Repeat("t", MaxTypeLen + 1), << >>)
ENoText == Ent(NameA, TypeG, <<Obs(1, <<"x">>, UserInput), Obs(NoID, EmptyStr, EmptyStr)>>)
ELongText == Ent(NameA, TypeP, <<Obs(2, Repeat("c", MaxTextLen + 1), UserInput)>>)
\* passes validation: the longest name, type and text
EMax == Ent(NameB, TypeG, <<Obs(NoID, Repeat("c", MaxTextLen), EmptyStr)>>)

InitValidate ==
    /\ InitializedNew
    /\ files = [n \in AllNames |-> Absent]
    /\ NoCalls
    /\ cfg = [NoCfg EXCEPT !.threads = {1}, !.maxOps = ValOps,
                           !.ents = {EA1, EMax, EBad, ENoName, ELongName, ELongType,
                                     ENoText, ELongText},
                           !.snap = TRUE]

NextValidate ==
    \E t \in Threads :
        \/ CreateEntity(t)
        \/ UpdateEntity(t)
        \/ SaveSteps(t)

SpecValidate == InitValidate /\ [][NextValidate]_vars

(***************************************************************************)
(* C15.  CreateEntity and UpdateEntity of an entity with an empty or      *)
(* over-long name or type, or with an observation whose text is empty or  *)
(* longer than 1000 characters, return a validation error, and no file    *)
(* and no cache entry is created or changed.                               *)
(***************************************************************************)
FailsValidation(e) ==
    \/ Len(e.name) = 0 \/ Len(e.name) > MaxNameLen
    \/ Len(e.entityType) = 0 \/ Len(e.entityType) > MaxTypeLen
    \/ \E i \in 1..Len(e.observations) :
          Len(e.observations[i].text) = 0 \/ Len(e.observations[i].text) > MaxTextLen

TypeMemory == <<"memory">>

\* mutant: the new entity has no type
NewEntity_NoType(name, entityType) == Ent(name, EmptyStr, << >>)

NewEntity(name, entityType) == Ent(name, entityType, << >>)

NewObservation(text, ctr) == Obs(NewUUID(ctr), text, UserInput)

AddObservation(e, text, ctr) ==
    [e EXCEPT !.observations = Append(@, NewObservation(text, ctr))]

\* if entityType == "" { entityType = "memory" }
DefaultType(entityType) == IF entityType = EmptyStr THEN TypeMemory ELSE entityType

RememberExists(t) ==
    /\ t \in cfg.handlers
    /\ pc[t] = "idle"
    /\ nops[t] = 0
    /\ \E n \in cfg.names : EntityExistsOf(t, n)

RememberGet(t) ==
    /\ t \in cfg.handlers
    /\ pc[t] = "idle"
    /\ res[t].kind = "EntityExists" /\ res[t].exists
    /\ GetEntityOf(t, res[t].name)

RememberCreate(t) ==
    /\ t \in cfg.handlers
    /\ pc[t] = "idle"
    /\ res[t].kind = "EntityExists" /\ ~res[t].exists
    /\ StartWriteFrom(t, "CreateEntity",
                      NewEntity(res[t].name, DefaultType(EmptyStr)), uuidCtr)

RememberUpdate(t) ==
    /\ t \in cfg.handlers
    /\ pc[t] = "idle"
    /\ res[t].kind \in {"GetEntity", "CreateEntity"} /\ res[t].err = OK
    /\ \E text \in cfg.facts :
         LET entity == IF res[t].kind = "GetEntity" THEN res[t].ent ELSE op[t].ent
         IN  StartWriteFrom(t, "UpdateEntity",
                            AddObservation(entity, text, uuidCtr), uuidCtr + 1)

handleMemoryRemember(t) ==
    \/ RememberExists(t)
    \/ RememberGet(t)
    \/ RememberCreate(t)
    \/ RememberUpdate(t)

(***************************************************************************)
(* SpecRemember: two remember operations on one name and a caller that    *)
(* creates and deletes the entity of that name, on a new store.           *)
(***************************************************************************)
InitRemember ==
    /\ InitializedNew
    /\ files = [n \in AllNames |-> Absent]
    /\ NoCalls
    /\ cfg = [NoCfg EXCEPT !.threads = {3}, !.maxOps = RemOps, !.handlers = {1, 2},
                           !.ents = {EA1}, !.names = {NameA}, !.facts = {<<"f">>}]

NextRemember ==
    \E t \in Threads :
        \/ handleMemoryRemember(t)
        \/ CreateEntity(t)
        \/ DeleteEntity(t)
        \/ SaveSteps(t)
        \/ LoadSteps(t)

SpecRemember == InitRemember /\ [][NextRemember]_vars

(***************************************************************************)
(* C16.  The remember sequence is not atomic.  It fails only when another *)
(* thread made calls, and then in its CreateEntity step with              *)
(* AlreadyExists or in its GetEntity or UpdateEntity step with NotFound;  *)
(* the witness is a state in which one remember operation has failed in   *)
(* its CreateEntity step and another with NotFound.                       *)
(***************************************************************************)
C16_RememberFailsOnlyWhenRaced ==
    \A t \in cfg.handlers :
        (pc[t] = "idle" /\ res[t].err # OK) =>
            /\ \E u \in Threads \ {t} : nops[u] > 0
            /\ res[t].kind = "CreateEntity" => res[t].err = ErrAlreadyExists
            /\ res[t].kind = "GetEntity" => res[t].err = ErrNotFound
            /\ res[t].kind = "UpdateEntity" => res[t].err = ErrDoesNotExist

C16_Witness ==
    \E t, u \in cfg.handlers :
        /\ pc[t] = "idle" /\ res[t].kind = "CreateEntity"
        /\ res[t].err = ErrAlreadyExists
        /\ pc[u] = "idle" /\ res[u].kind \in {"GetEntity", "UpdateEntity"}
        /\ IsNotFoundCondition(res[u].err)

(***************************************************************************)
(* Creating a relation (Router.handleCreateRelation): EntityExists(from), *)
(* EntityExists(to), GetRelations, the search for the same relation,      *)
(* AddRelation, SaveRelations.  A handler that finds an endpoint missing, *)
(* the relation present or an error answers with that and ends.           *)
(***************************************************************************)
\* mutant: the relation starts at its target
NewRelation_FromTo(from, to, relationType, ctr) ==
    Rel(NewUUID(ctr), to, to, relationType)

NewRelation(from, to, relationType, ctr) ==
    Rel(NewUUID(ctr), from, to, relationType)

AddRelation(rs, from, to, relationType, ctr) ==
    Append(rs, NewRelation(from, to, relationType, ctr))

\* existing.From == From && existing.To == To && existing.RelationType == RelationType
HasRelation(rs, rq) ==
    \E i \in 1..Len(rs) :
        /\ rs[i].from = rq.from /\ rs[i].to = rq.to
        /\ rs[i].relationType = rq.relationType

CreateRelationCheckFrom(t) ==
    /\ t \in cfg.relHandlers
    /\ pc[t] = "idle"
    /\ nops[t] = 0
    /\ \E rq \in cfg.relReqs : EntityExistsOf(t, rq.from)

CreateRelationCheckTo(t) ==
    /\ t \in cfg.relHandlers
    /\ pc[t] = "idle"
    /\ nops[t] = 1
    /\ res[t].kind = "EntityExists" /\ res[t].exists
    /\ \E rq \in cfg.relReqs : res[t].name = rq.from /\ EntityExistsOf(t, rq.to)

CreateRelationGet(t) ==
    /\ t \in cfg.relHandlers
    /\ pc[t] = "idle"
    /\ nops[t] = 2
    /\ res[t].kind = "EntityExists" /\ res[t].exists
    /\ GetRelationsOf(t)

CreateRelationSave(t) ==
    /\ t \in cfg.relHandlers
    /\ pc[t] = "idle"
    /\ res[t].kind = "GetRelations" /\ res[t].err = OK
    /\ \E rq \in cfg.relReqs :
         /\ ~HasRelation(res[t].rels, rq)
         /\ SaveRelationsFrom(t, AddRelation(res[t].rels, rq.from, rq.to,
                                             rq.relationType, uuidCtr),
                              uuidCtr + 1)

handleCreateRelation(t) ==
    \/ CreateRelationCheckFrom(t)
    \/ CreateRelationCheckTo(t)
    \/ CreateRelationGet(t)
    \/ CreateRelationSave(t)

(***************************************************************************)
(* SpecRelate: one create-relation operation between two stored entities  *)
(* and a caller that deletes entities.                                     *)
(***************************************************************************)
RelReq == [from |-> NameA, to |-> NameB, relationType |-> <<"r">>]

InitRelate ==
    /\ InitializedNew
    /\ files = [n \in AllNames |-> IF n = NameA THEN EntityToJSON(EA1)
                                    ELSE EntityToJSON(EB1)]
    /\ NoCalls
    /\ cfg = [NoCfg EXCEPT !.threads = {2}, !.maxOps = RelOps, !.relHandlers = {1},
                           !.relReqs = {RelReq}, !.names = {NameA, NameB},
                           !.snap = TRUE]

NextRelate ==
    \E t \in Threads :
        \/ handleCreateRelation(t)
        \/ DeleteEntity(t)
        \/ SaveSteps(t)
        \/ LoadSteps(t)

SpecRelate == InitRelate /\ [][NextRelate]_vars

(***************************************************************************)
(* C17.  Creating a relation is not atomic with respect to a concurrent   *)
(* DeleteEntity.  A create-relation that found an endpoint missing stores *)
(* nothing, one that succeeded has stored exactly the requested relation, *)
(* and a stored relation has an endpoint without file only if a           *)
(* DeleteEntity was called; the witness is a state in which the operation *)
(* has succeeded although an endpoint was removed after its checks and    *)
(* before its SaveRelations call, and the stored relation names an entity *)
(* without file.                                                           *)
(***************************************************************************)
StoredRelations == IF relFile.kind = "relations" THEN relFile.relations ELSE << >>

Dangling(r) == files[r.from].kind = "absent" \/ files[r.to].kind = "absent"

C17_DanglingOnlyByConcurrentDelete ==
    /\ \A i \in 1..Len(StoredRelations) :
          Dangling(StoredRelations[i])
          => \E u \in cfg.threads : nops[u] > 0 /\ op[u].kind = "DeleteEntity"
    /\ \A t \in cfg.relHandlers :
          /\ (pc[t] = "idle" /\ res[t].kind = "EntityExists" /\ ~res[t].exists)
             => StoredRelations = << >>
          /\ (pc[t] = "idle" /\ res[t].kind = "SaveRelations")
             => /\ res[t].err = OK
                /\ Len(StoredRelations) = 1
                /\ HasRelation(StoredRelations, RelReq)

C17_Witness ==
    \E t \in cfg.relHandlers :
        /\ pc[t] = "idle" /\ res[t].kind = "SaveRelations" /\ res[t].err = OK
        /\ snap[t].files[RelReq.from].kind = "absent"
        /\ HasRelation(StoredRelations, RelReq)
        /\ \E i \in 1..Len(StoredRelations) : Dangling(StoredRelations[i])

(***************************************************************************)
(* C18.  The store does not check or repair relation endpoints:           *)
(* SaveRelations succeeds and stores every relation of the set it is      *)
(* given, whether or not the entities it names have files, and            *)
(* DeleteEntity leaves the relations file and the cached relation set as  *)
(* they were.                                                              *)
(***************************************************************************)
SameRelations(stored, rs) ==
    /\ Len(stored) = Len(rs)
    /\ \A i \in 1..Len(rs) :
          /\ stored[i].id = rs[i].id
          /\ stored[i].from = rs[i].from /\ stored[i].to = rs[i].to
          /\ stored[i].relationType = rs[i].relationType

C18_StoreIgnoresEndpoints ==
    [][\A t \in Threads :
          /\ (Returns(t) /\ op'[t].kind = "SaveRelations") =>
                 /\ res'[t].err = OK
                 /\ relFile'.kind = "relations"
                 /\ SameRelations(relFile'.relations, op'[t].rels)
                 /\ SameRelations(relationCache', op'[t].rels)
                 /\ files' = snap'[t].files
          /\ (Returns(t) /\ op'[t].kind = "DeleteEntity") =>
                 /\ relFile' = snap'[t].relFile
                 /\ relationCache' = snap'[t].relationCache
      ]_vars

\* SaveRelations has stored a relation between two names without file, and
\* a DeleteEntity of one of them has returned: the relation is still stored
C18_Witness ==
    \E t \in Threads :
        /\ pc[t] = "idle" /\ res[t].kind = "DeleteEntity" /\ res[t].name = NameA
        /\ files[NameA].kind = "absent" /\ files[NameB].kind = "absent"
        /\ relFile = RelationsToJSON(<<R1>>)
        /\ relationCache = <<R1>>

(***************************************************************************)
(* SpecRelRoundTrip: one thread that saves relation sets, clears the      *)
(* cache and reads the relations back, on a new store.  The sets have     *)
(* zero, one and two relations, and one has a relation type that is not   *)
(* valid UTF-8.                                                            *)
(***************************************************************************)
R2 == Rel(6, NameB, NameA, <<"s", "t">>)
RBad == Rel(9, NameA, NameB, <<"r", BadByte>>)

InitRelRoundTrip ==
    /\ InitializedNew
    /\ files = [n \in AllNames |-> Absent]
    /\ NoCalls
    /\ cfg = [NoCfg EXCEPT !.threads = {1}, !.maxOps = RTOps,
                           !.rels = {NoRels, <<R1>>, <<R2, R1>>, <<R1, R2>>, <<RBad>>}]

NextRelRoundTrip ==
    \E t \in Threads :
        \/ SaveRelations(t)
        \/ ClearCache(t)
        \/ GetRelations(t)
        \/ SaveSteps(t)
        \/ LoadSteps(t)

SpecRelRoundTrip == InitRelRoundTrip /\ [][NextRelRoundTrip]_vars

(***************************************************************************)
(* C19.  GetRelations returns the relations of the last SaveRelations, in *)
(* the same order, from the cache and, after ClearCache, from the file;   *)
(* relations of earlier sets that are not in the last one are gone.       *)
(***************************************************************************)
C19_RelationsRoundTrip ==
    [][\A t \in Threads :
          (Returns(t) /\ op'[t].kind = "GetRelations")
          => (res'[t].err = OK /\ res'[t].rels = hist.saved)
      ]_vars

(***************************************************************************)
(* C20.  ListEntities(typeFilter).  Stated for the files alone: it        *)
(* returns, each once and in directory order, the decoded entities of the *)
(* files that parse and whose type passes the filter, skips the files     *)
(* that do not parse, and every returned entity is in the cache           *)
(* afterwards.                                                             *)
(***************************************************************************)
PassesFilter(e, filter) == filter = EmptyStr \/ e.entityType = filter

RECURSIVE ParseableList(_, _, _)
ParseableList(fls, filter, i) ==
    IF i > Len(NamesSorted) THEN << >>
    ELSE LET n == NamesSorted[i]
             d == EntityFromJSON(fls[n])
         IN  (IF fls[n].kind # "absent" /\ d.err = OK /\ PassesFilter(d.ent, filter)
              THEN <<d.ent>> ELSE << >>)
             \o ParseableList(fls, filter, i + 1)

C20_ListEntitiesExact ==
    [][\A t \in Threads :
          (Returns(t) /\ op'[t].kind = "ListEntities") =>
             /\ res'[t].err = OK
             /\ res'[t].list = ParseableList(snap'[t].files, op'[t].filter, 1)
             /\ \A i \in 1..Len(res'[t].list) :
                   \E n \in AllNames : entityCache'[n] = Cached(res'[t].list[i])
      ]_vars

(***************************************************************************)
(* C20, amended.  ListEntities obtains the entity of every file of the    *)
(* directory as GetEntity does: the cached entity when the name is        *)
(* cached, otherwise the decoded file, which it caches; a name that is    *)
(* not cached and whose file does not parse is skipped.  It returns, each *)
(* once and in directory order, the obtained entities whose type passes   *)
(* the filter; afterwards every obtained entity is in the cache, and no   *)
(* file has changed.                                                       *)
(***************************************************************************)
Obtained(cache, fls, n) ==
    IF cache[n].in THEN [err |-> OK, ent |-> cache[n].ent]
    ELSE EntityFromJSON(fls[n])

RECURSIVE ObtainedList(_, _, _, _)
ObtainedList(cache, fls, filter, i) ==
    IF i > Len(NamesSorted) THEN << >>
    ELSE LET n == NamesSorted[i]
             g == Obtained(cache, fls, n)
         IN  (IF fls[n].kind # "absent" /\ g.err = OK /\ PassesFilter(g.ent, filter)
              THEN <<g.ent>> ELSE << >>)
             \o ObtainedList(cache, fls, filter, i + 1)

CacheAfterList(cache, fls) ==
    [n \in AllNames |->
        IF fls[n].kind # "absent" /\ Obtained(cache, fls, n).err = OK
        THEN Cached(Obtained(cache, fls, n).ent)
        ELSE cache[n]]

C20_ListEntitiesThroughCache ==
    [][\A t \in Threads :
          (Returns(t) /\ op'[t].kind = "ListEntities") =>
             /\ res'[t].err = OK
             /\ res'[t].list = ObtainedList(snap'[t].cache, snap'[t].files,
                                            op'[t].filter, 1)
             /\ entityCache' = CacheAfterList(snap'[t].cache, snap'[t].files)
             /\ files' = snap'[t].files
      ]_vars

\* a listing skipped a file that does not parse and returned the entity of
\* the other file, which is cached now
C20_Witness ==
    \E t \in Threads :
        /\ pc[t] = "idle" /\ res[t].kind = "ListEntities" /\ res[t].err = OK
        /\ files[NameA] = Garbage /\ ~entityCache[NameA].in
        /\ Len(res[t].list) = 1
        /\ res[t].list[1].name = NameB
        /\ entityCache[NameB] = Cached(res[t].list[1])

(***************************************************************************)
(* SpecExists: one thread that creates and deletes entities, clears the   *)
(* cache and probes names with EntityExists, and files that change behind *)
(* the store's back between calls.  One probed name is longer than a file *)
(* name can be.                                                            *)
(***************************************************************************)
NameLong == Repeat("n", NameMax)

InitExists ==
    /\ InitializedNew
    /\ files = [n \in AllNames |-> Absent]
    /\ NoCalls
    /\ cfg = [NoCfg EXCEPT !.threads = {1}, !.maxOps = SeqOps,
                           !.ents = {EA1, EB1}, !.names = {NameA, NameB},
                           !.probes = {NameA, NameB, NameLong},
                           !.oob = {Absent, Garbage},
                           !.oobPaths = {getEntityFilePath(NameA)},
                           !.snap = TRUE]

NextExists ==
    \/ OutOfBandEdit
    \/ \E t \in Threads :
        \/ EntityExistsCall(t)
        \/ CreateEntity(t)
        \/ DeleteEntity(t)
        \/ ClearCache(t)
        \/ SaveSteps(t)

SpecExists == InitExists /\ [][NextExists]_vars

(***************************************************************************)
(* C21.  EntityExists(name) returns true exactly when the file of the     *)
(* entity is present, whether or not name is in the cache, and it changes *)
(* neither the cache nor a file.                                           *)
(***************************************************************************)
HasFile(fls, name) == name \in DOMAIN fls /\ fls[name].kind # "absent"

C21_ExistsIffFilePresent ==
    [][\A t \in Threads :
          (Returns(t) /\ op'[t].kind = "EntityExists") =>
             /\ res'[t].exists <=> HasFile(snap'[t].files, op'[t].name)
             /\ NothingChanged(t)
      ]_vars

(***************************************************************************)
(* SpecSearch: one thread that creates entities, clears the cache and     *)
(* searches the observations, on a new store.  The entities have several  *)
(* observations, texts in upper and lower case, and one text twice.       *)
(***************************************************************************)
ES1 == Ent(NameA, TypeG, <<Obs(11, <<"x", "A", "g">>, UserInput),
                           Obs(12, <<"y">>, UserInput),
                           Obs(13, <<"G", "a">>, UserInput),
                           Obs(14, <<"x", "A", "g">>, UserInput)>>)
ES2 == Ent(NameB, TypeP, <<Obs(15, <<"a", "G", "a">>, UserInput),
                           Obs(16, <<"g">>, <<"s">>)>>)
ES3 == Ent(NameB, TypeG, << >>)

InitSearch ==
    /\ InitializedNew
    /\ files = [n \in AllNames |-> Absent]
    /\ NoCalls
    /\ cfg = [NoCfg EXCEPT !.threads = {1}, !.maxOps = SearchOps,
                           !.ents = {ES1, ES2, ES3},
                           !.filters = {EmptyStr, TypeG},
                           !.queries = {EmptyStr, <<"a">>, <<"A", "g">>, <<"x", "x">>},
                           !.snap = TRUE]

NextSearch ==
    \E t \in Threads :
        \/ CreateEntity(t)
        \/ ClearCache(t)
        \/ SearchObservations(t)
        \/ SaveSteps(t)
        \/ LoadSteps(t)

SpecSearch == InitSearch /\ [][NextSearch]_vars

(***************************************************************************)
(* C22.  SearchObservations(query, typeFilter) returns one tuple (entity  *)
(* name, entity type, observation) for every observation, of every entity *)
(* that ListEntities(typeFilter) returns, whose text contains query when  *)
(* case is ignored: no other tuple, each once, the entities in the order  *)
(* of ListEntities and the observations of an entity in stored order.     *)
(***************************************************************************)
\* the two characters are the same letter, in whatever case
SameLetter(c, d) ==
    \/ c = d
    \/ {c, d} \in {{"a", "A"}, {"g", "G"}}

ContainsFold(text, query) ==
    \E i \in 0..(Len(text) - Len(query)) :
        \A k \in 1..Len(query) : SameLetter(text[i + k], query[k])

\* the positions <<entity, observation>> of the entities, in order
RECURSIVE Positions(_, _, _)
Positions(ents, i, j) ==
    IF i > Len(ents) THEN << >>
    ELSE IF j > Len(ents[i].observations) THEN Positions(ents, i + 1, 1)
    ELSE <<(<<i, j>>)>> \o Positions(ents, i, j + 1)

Matching(ents, query) ==
    LET Hit(p) == ContainsFold(ents[p[1]].observations[p[2]].text, query)
    IN  SelectSeq(Positions(ents, 1, 1), Hit)

SameObservations(stored, obs) ==
    /\ Len(stored) = Len(obs)
    /\ \A i \in 1..Len(obs) :
          /\ stored[i].id = obs[i].id
          /\ stored[i].text = obs[i].text
          /\ stored[i].source = obs[i].source

HoldsEntity(doc, e) ==
    /\ doc.kind = "entity"
    /\ doc.name = e.name
    /\ doc.entityType = e.entityType
    /\ SameObservations(doc.observations, e.observations)

EDup == Ent(NameA, TypeG, <<Obs(21, <<"x">>, UserInput), Obs(21, <<"y">>, UserInput)>>)
\* two observations without ID: Validate generates them
ENoIDs == Ent(NameB, TypeP, <<Obs(NoID, <<"x">>, EmptyStr), Obs(NoID, <<"x">>, EmptyStr)>>)

InitIDs ==
    /\ InitializedNew
    /\ files = [n \in AllNames |-> Absent]
    /\ NoCalls
    /\ cfg = [NoCfg EXCEPT !.threads = {1}, !.maxOps = ValOps,
                           !.ents = {EA1, EA2, EB1, EDup, ENoIDs},
                           !.snap = TRUE]

SpecIDs == InitIDs /\ [][NextValidate]_vars

(***************************************************************************)
(* C24.  Every entity that CreateEntity or UpdateEntity has accepted and  *)
(* stored, in a file or in the cache, has pairwise distinct observation   *)
(* IDs.                                                                    *)
(***************************************************************************)
DistinctIDs(obs) ==
    \A i, j \in 1..Len(obs) : i # j => obs[i].id # obs[j].id

C24_ObservationIDsUnique ==
    \A n \in AllNames :
        /\ files[n].kind = "entity" => DistinctIDs(files[n].observations)
        /\ entityCache[n].in => DistinctIDs(entityCache[n].ent.observations)

(***************************************************************************)
(* C25.  The lock registry holds one lock per file path: a lock is        *)
(* created only by a getFileLock call for its path when the path has no   *)
(* lock yet; once a path has a lock it keeps that lock (DeleteEntity and  *)
(* ClearCache do not remove or replace it); two paths never share a lock; *)
(* and every getFileLock call returns the lock the registry holds for the *)
(* path, so all calls for one path return the same lock.                   *)
(***************************************************************************)
\* the positions at which a thread uses the lock getFileLock returned
UsesFileLock == {"save_lock", "save_open", "save_write", "save_unlock",
                 "load_rlock", "load_read", "load_runlock"}

C25_OneLockPerPath ==
    [][ /\ \A p \in AllPaths :
              /\ fileLocks[p] # 0 => fileLocks'[p] = fileLocks[p]
              /\ fileLocks'[p] # fileLocks[p]
                 => \E t \in Threads : pc[t] = "gfl_body" /\ loc[t].path = p
        /\ \A p, q \in AllPaths :
              (p # q /\ fileLocks'[p] # 0) => fileLocks'[p] # fileLocks'[q]
        /\ Len(lockObjs') >= Len(lockObjs)
        /\ \A t \in Threads :
              pc'[t] \in UsesFileLock
              => (loc'[t].lock # 0 /\ loc'[t].lock = fileLocks'[loc'[t].path])
      ]_vars

\* two calls for the same entity hold the same lock object, one of them made
\* by a thread whose DeleteEntity of that entity has returned, after a
\* ClearCache of the other thread
C25_Witness ==
    \E t, u \in Threads :
        /\ t # u
        /\ pc[t] \in UsesFileLock /\ pc[u] \in UsesFileLock
        /\ loc[t].path = getEntityFilePath(NameA) /\ loc[u].path = loc[t].path
        /\ loc[t].lock = loc[u].lock
        /\ res[u].kind = "DeleteEntity"
        /\ res[t].kind = "ClearCache"

(***************************************************************************)
(* SpecGet: threads that read the entities of a store opened on a         *)
(* directory that holds two entity files; the cache is empty at first and *)
(* nothing writes or deletes.                                              *)
(***************************************************************************)
InitGet ==
    /\ NewFileStore
    /\ relFile = RelationsToJSON(NoRels)
    /\ files = [n \in AllNames |-> IF n = NameA THEN EntityToJSON(EA1)
                                    ELSE EntityToJSON(EB1)]
    /\ NoCalls
    /\ cfg = [NoCfg EXCEPT !.names = {NameA, NameB}]

NextGet ==
    \E t \in Threads :
        \/ GetEntity(t)
        \/ GetFileLockEnter(t)
        \/ GetFileLockBody(t)
        \/ LoadSteps(t)
        \/ CacheLock(t)
        \/ CacheSet(t)

SpecGet == InitGet /\ [][NextGet]_vars

(***************************************************************************)
(* C26.  When GetEntity calls for one name miss the cache together and    *)
(* read the file concurrently, with no writer and no delete, each returns *)
(* without error the entity the file holds, so they return equal values,  *)
(* and the cache entry of the name then holds that entity too.            *)
(***************************************************************************)
C26_DoubleMissHarmless ==
    /\ \A t \in Threads :
          (pc[t] = "idle" /\ res[t].kind = "GetEntity") =>
             /\ res[t].err = OK
             /\ HoldsEntity(files[res[t].name], res[t].ent)
             /\ entityCache[res[t].name].in
             /\ HoldsEntity(files[res[t].name], entityCache[res[t].name].ent)
    /\ \A t, u \in Threads :
          (/\ pc[t] = "idle" /\ res[t].kind = "GetEntity"
           /\ pc[u] = "idle" /\ res[u].kind = "GetEntity"
           /\ res[t].name = res[u].name)
          => res[t].ent = res[u].ent

\* two GetEntity calls of the same name, each the first call of its thread,
\* have both missed the cache and have both returned
C26_Witness ==
    \E t, u \in Threads :
        /\ t # u
        /\ pc[t] = "idle" /\ pc[u] = "idle"
        /\ nops[t] = 1 /\ nops[u] = 1
        /\ res[t].kind = "GetEntity" /\ res[u].kind = "GetEntity"
        /\ res[t].name = NameB /\ res[u].name = NameB
        /\ ~res[t].hit /\ ~res[u].hit
        /\ entityCache[NameB] = Cached(res[t].ent)

(***************************************************************************)
(* SpecInit: one thread that calls Initialize, creates entities and saves *)
(* relation sets, on a store made by NewFileStore on a new directory, and *)
(* a relations file that is removed or overwritten behind the store's     *)
(* back between calls.                                                     *)
(***************************************************************************)
InitInit ==
    /\ NewFileStore
    /\ relFile = Absent
    /\ files = [n \in AllNames |-> Absent]
    /\ NoCalls
    /\ cfg = [NoCfg EXCEPT !.threads = {1}, !.maxOps = InitOps,
                           !.ents = {EA1}, !.rels = {<<R1>>},
                           !.oob = {Absent, Garbage},
                           !.oobPaths = {RelationsPath},
                           !.snap = TRUE]

NextInit ==
    \/ OutOfBandEdit
    \/ \E t \in Threads :
        \/ Initialize(t)
        \/ CreateEntity(t)
        \/ SaveRelations(t)
        \/ SaveSteps(t)

SpecInit == InitInit /\ [][NextInit]_vars

(***************************************************************************)
(* C27.  Initialize succeeds and leaves every entity file as it was; it   *)
(* leaves the relations file as it was when there is one, whatever it     *)
(* holds, and writes the empty relation set when there is none.           *)
(***************************************************************************)
C27_InitializeIdempotent ==
    [][\A t \in Threads :
          (Returns(t) /\ op'[t].kind = "Initialize") =>
             /\ res'[t].err = OK
             /\ files' = snap'[t].files
             /\ IF snap'[t].relFile.kind = "absent"
                THEN relFile'.kind = "relations" /\ relFile'.relations = << >>
                ELSE relFile' = snap'[t].relFile
      ]_vars

\* Initialize has returned on a store that holds an entity and a relation:
\* both files are as they were
C27_Witness ==
    \E t \in Threads :
        /\ pc[t] = "idle" /\ res[t].kind = "Initialize" /\ res[t].err = OK
        /\ files[NameA] = EntityToJSON(EA1)
        /\ snap[t].relFile = RelationsToJSON(<<R1>>)
        /\ relFile = RelationsToJSON(<<R1>>)

(***************************************************************************)
(* The methods of models.Entity on an entity a caller holds.  The entity  *)
(* is the receiver of the calls of the thread; time.Now() is the number   *)
(* of the call that reads the clock.                                       *)
(***************************************************************************)
AddObservationWithSource(e, text, source, ctr) ==
    [e EXCEPT !.observations = Append(@, [NewObservation(text, ctr) EXCEPT !.source = source])]

\* the observations without the one at position i
RemoveAt(obs, i) == SubSeq(obs, 1, i - 1) \o SubSeq(obs, i + 1, Len(obs))

\* mutant: every observation with the ID is removed
RemoveObservation_All(e, observationID) ==
    [removed |-> \E i \in 1..Len(e.observations) : e.observations[i].id = observationID,
     ent |-> [e EXCEPT !.observations =
                 SelectSeq(@, LAMBDA o : o.id # observationID)]]

\* for i, obs := range e.Observations: the first one with the ID is removed
RECURSIVE RemoveFrom(_, _, _)
RemoveFrom(e, observationID, i) ==
    IF i > Len(e.observations) THEN [removed |-> FALSE, ent |-> e]
    ELSE IF e.observations[i].id = observationID
    THEN [removed |-> TRUE, ent |-> [e EXCEPT !.observations = RemoveAt(@, i)]]
    ELSE RemoveFrom(e, observationID, i + 1)

RemoveObservation(e, observationID) == RemoveFrom(e, observationID, 1)

\* the thread holds an entity and may call a method on it
HoldsEntityInHand(t) ==
    /\ t \in cfg.threads
    /\ pc[t] = "idle"
    /\ nops[t] > 0 /\ nops[t] < cfg.maxOps

Now(t) == nops[t] + 1

\* the call of a method: the receiver after the call, what the call returned
MethodCall(t, o, r, ctr, modified) ==
    /\ BeginReturn(t, o, r)
    /\ uuidCtr' = ctr
    /\ hist' = [hist EXCEPT !.lastModified = IF modified THEN Now(t) ELSE @]
    /\ UNCHANGED cfg
    /\ UNCHANGED_store /\ UNCHANGED_locks

\* the caller gets an entity: from NewEntity, or one that was stored
TakeEntity(t) ==
    /\ t \in cfg.threads
    /\ pc[t] = "idle"
    /\ nops[t] = 0
    /\ \E e \in cfg.ents :
         MethodCall(t, [NoOp EXCEPT !.kind = "NewEntity", !.name = e.name, !.ent = e],
                    NoRes, uuidCtr, TRUE)

EntityAddObservation(t) ==
    /\ HoldsEntityInHand(t)
    /\ \E text \in cfg.facts :
         MethodCall(t, [op[t] EXCEPT !.kind = "AddObservation", !.query = text,
                                     !.ent = AddObservation(@, text, uuidCtr)],
                    NoRes, uuidCtr + 1, TRUE)

EntityAddObservationWithSource(t) ==
    /\ HoldsEntityInHand(t)
    /\ \E text \in cfg.facts, source \in cfg.sources :
         MethodCall(t, [op[t] EXCEPT !.kind = "AddObservationWithSource",
                                     !.query = text, !.filter = source,
                                     !.ent = AddObservationWithSource(@, text, source, uuidCtr)],
                    NoRes, uuidCtr + 1, TRUE)

EntityRemoveObservation(t) ==
    /\ HoldsEntityInHand(t)
    /\ \E id \in cfg.ids :
         LET r == RemoveObservation(op[t].ent, id)
         IN  MethodCall(t, [op[t] EXCEPT !.kind = "RemoveObservation", !.id = id,
                                         !.ent = r.ent],
                        [NoRes EXCEPT !.removed = r.removed], uuidCtr, r.removed)

EntityValidateCall(t) ==
    /\ HoldsEntityInHand(t)
    /\ LET v == EntityValidate(op[t].ent, uuidCtr)
       IN  MethodCall(t, [op[t] EXCEPT !.kind = "Validate", !.ent = v.ent],
                      [NoRes EXCEPT !.err = v.err], v.ctr, FALSE)

EntitySearch(t) ==
    /\ HoldsEntityInHand(t)
    /\ \E q \in cfg.queries :
         MethodCall(t, [op[t] EXCEPT !.kind = "Entity.SearchObservations", !.query = q],
                    [NoRes EXCEPT !.list = EntitySearchObservations(op[t].ent, q)],
                    uuidCtr, FALSE)

(***************************************************************************)
(* SpecEntity: a caller that holds an entity and calls its methods.  The  *)
(* entity is new, or has observations (one has an ID twice, one a text    *)
(* twice, one a text that is not valid UTF-8).                             *)
(***************************************************************************)
EBadText == Ent(NameA, TypeG, <<Obs(31, <<"x", BadByte>>, UserInput),
                                Obs(32, <<"y">>, UserInput)>>)

InitEntity ==
    /\ InitializedNew
    /\ files = [n \in AllNames |-> Absent]
    /\ NoCalls
    /\ cfg = [NoCfg EXCEPT !.threads = {1}, !.maxOps = EntOps,
                           !.ents = {NewEntity(NameA, TypeG), EDup, ES1, EBadText},
                           !.facts = {<<"x">>, <<"A", "g">>},
                           !.sources = {<<"s">>},
                           !.ids = {11, 21, 99, NewUUID(0)},
                           !.queries = {EmptyStr, <<"a", "G">>, <<"X">>, <<ReplChar>>}]

NextEntity ==
    \E t \in Threads :
        \/ TakeEntity(t)
        \/ EntityAddObservation(t)
        \/ EntityAddObservationWithSource(t)
        \/ EntityRemoveObservation(t)
        \/ EntityValidateCall(t)
        \/ EntitySearch(t)

SpecEntity == InitEntity /\ [][NextEntity]_vars

(***************************************************************************)
(* C28.  The observations of an entity are in insertion order.            *)
(* AddObservation appends one observation with the text at the end, also  *)
(* when the text is there already.  RemoveObservation(id) with an ID that *)
(* is present removes the first observation with that ID and no other,    *)
(* keeps the order of the rest and returns true; with an ID that is not   *)
(* present it returns false and leaves the observations and LastModified  *)
(* as they were.                                                           *)
(***************************************************************************)
HasID(obs, id) == \E i \in 1..Len(obs) : obs[i].id = id

FirstWithID(obs, id) ==
    CHOOSE i \in 1..Len(obs) :
        obs[i].id = id /\ \A j \in 1..(i - 1) : obs[j].id # id

C28_ObservationsInInsertionOrder ==
    [][\A t \in Threads :
          LET old == op[t].ent.observations
              new == op'[t].ent.observations
          IN  /\ (Returns(t) /\ op'[t].kind = "AddObservation") =>
                    /\ Len(new) = Len(old) + 1
                    /\ \A i \in 1..Len(old) : new[i] = old[i]
                    /\ new[Len(new)].text = op'[t].query
              /\ (Returns(t) /\ op'[t].kind = "RemoveObservation"
                             /\ HasID(old, op'[t].id)) =>
                    LET k == FirstWithID(old, op'[t].id)
                    IN  /\ res'[t].removed
                        /\ Len(new) = Len(old) - 1
                        /\ \A i \in 1..Len(new) :
                              new[i] = IF i < k THEN old[i] ELSE old[i + 1]
              /\ (Returns(t) /\ op'[t].kind = "RemoveObservation"
                             /\ ~HasID(old, op'[t].id)) =>
                    /\ ~res'[t].removed
                    /\ new = old
                    /\ hist'.lastModified = hist.lastModified
      ]_vars

\* "a" and "b" were added to a new entity and the observation of "a" was
\* removed: the entity holds the observation of "b"
C28_Witness ==
    \E t \in Threads :
        /\ res[t].kind = "RemoveObservation" /\ res[t].removed
        /\ op[t].id = NewUUID(0)
        /\ Len(op[t].ent.observations) = 1
        /\ op[t].ent.observations[1].id = NewUUID(1)
        /\ op[t].ent.observations[1].text = <<"A", "g">>

(***************************************************************************)
(* The delete request of the HTTP API (Router.handleDeleteEntity):        *)
(* EntityExists, the answer 404 when it is false, otherwise DeleteEntity  *)
(* and the answer 200, or 500 when DeleteEntity failed.                    *)
(***************************************************************************)
StatusOK == "http.StatusOK"
StatusNotFound == "http.StatusNotFound"
StatusInternalServerError == "http.StatusInternalServerError"

DeleteRequestCheck(t) ==
    /\ t \in cfg.delHandlers
    /\ pc[t] = "idle"
    /\ nops[t] = 0
    /\ \E n \in cfg.names : EntityExistsOf(t, n)

DeleteRequestDelete(t) ==
    /\ t \in cfg.delHandlers
    /\ pc[t] = "idle"
    /\ res[t].kind = "EntityExists" /\ res[t].exists
    /\ DeleteEntityOf(t, res[t].name)

handleDeleteEntity(t) ==
    \/ DeleteRequestCheck(t)
    \/ DeleteRequestDelete(t)

\* mutant: the request is answered with 200 whatever the check found
DeleteResponse_AlwaysOK(t) == StatusOK

\* the answer of a delete request that has ended
DeleteResponse(t) ==
    IF res[t].kind = "EntityExists" /\ ~res[t].exists THEN StatusNotFound
    ELSE IF res[t].kind = "DeleteEntity" /\ res[t].err # OK THEN StatusInternalServerError
    ELSE StatusOK

(***************************************************************************)
(* SpecDelete: a delete request and a caller of the store that creates    *)
(* and deletes the entity, on a new store.                                 *)
(***************************************************************************)
InitDelete ==
    /\ InitializedNew
    /\ files = [n \in AllNames |-> Absent]
    /\ NoCalls
    /\ cfg = [NoCfg EXCEPT !.threads = {2}, !.maxOps = DelOps, !.delHandlers = {1},
                           !.ents = {EA1}, !.names = {NameA}, !.snap = TRUE]

NextDelete ==
    \E t \in Threads :
        \/ handleDeleteEntity(t)
        \/ CreateEntity(t)
        \/ DeleteEntity(t)
        \/ SaveSteps(t)

SpecDelete == InitDelete /\ [][NextDelete]_vars

C30_SearchExact ==
    [][\A t \in Threads :
          (Returns(t) /\ op'[t].kind = "Entity.SearchObservations") =>
             LET Hit(o) == ContainsFold(o.text, op'[t].query)
             IN  /\ res'[t].list = SelectSeq(op[t].ent.observations, Hit)
                 /\ op'[t].ent = op[t].ent
                 /\ hist'.lastModified = hist.lastModified
      ]_vars

(***************************************************************************)
(* SpecUpdateDelete: threads that each make one call, an UpdateEntity or  *)
(* a DeleteEntity, on an entity which CreateEntity(EA1) has stored and    *)
(* cached.  Nothing creates an entity, so an UpdateEntity that succeeds   *)
(* has made its existence check before any DeleteEntity removed the file. *)
(***************************************************************************)
InitUpdateDelete ==
    /\ CreatedEA1
    /\ cfg = [NoCfg EXCEPT !.maxOps = RaceOps, !.ents = {EA1, EA2}, !.names = {NameA}]

NextUpdateDelete ==
    \E t \in Threads :
        \/ UpdateEntity(t)
        \/ DeleteEntity(t)
        \/ SaveSteps(t)

SpecUpdateDelete == InitUpdateDelete /\ [][NextUpdateDelete]_vars

(***************************************************************************)
(* C31.  An UpdateEntity does not bring back an entity that a concurrent  *)
(* DeleteEntity removed after the existence check of the update: once     *)
(* both have returned, the name has no file and no cache entry.           *)
(***************************************************************************)
C31_UpdateNeverResurrects ==
    \A u, d \in Threads :
        (/\ AllIdle
         /\ res[u].kind = "UpdateEntity" /\ res[u].err = OK
         /\ res[d].kind = "DeleteEntity" /\ res[d].err = OK)
        => (files[res[u].name] = Absent /\ ~entityCache[res[u].name].in)


(***************************************************************************)
(* Assignments to the fields of an object.  Every copy of the pointer     *)
(* sees them: the cache entry, the argument of a call that is under way   *)
(* (json.Marshal reads the object when the file is written) and the       *)
(* results the callers hold.                                               *)
(***************************************************************************)
\* the object k gets the fields of v; the assigning thread t goes on with r
Assign(t, k, v, r) ==
    /\ entityCache' = [n \in AllNames |->
                          [entityCache[n] EXCEPT !.ent = Assigned(@, k, v)]]
    /\ op' = [u \in Threads |-> [op[u] EXCEPT !.ent = Assigned(@, k, v)]]
    /\ loc' = [u \in Threads |->
                  IF u = t THEN NoLoc ELSE [loc[u] EXCEPT !.ent = Assigned(@, k, v)]]
    /\ res' = [u \in Threads |->
                  IF u = t THEN r ELSE [res[u] EXCEPT !.ent = Assigned(@, k, v)]]

\* the pointer a caller holds after GetEntity, or after it passed its own
\* object to CreateEntity or UpdateEntity, or after it assigned to the object
Held(t) == IF res[t].kind \in {"CreateEntity", "UpdateEntity"}
           THEN op[t].ent ELSE res[t].ent

(***************************************************************************)
(* StdioServer.handleRememberFact, and Router.handleMemoryRemember in the *)
(* same steps: EntityExists, then GetEntity or NewEntity and CreateEntity,*)
(* then entity.AddObservation on the object the handler holds, then       *)
(* UpdateEntity of that object.  AddObservation is                        *)
(* e.Observations = append(e.Observations, obs) with no lock: the read of *)
(* the slice and the assignment are two steps.                            *)
(***************************************************************************)
FactIdle(t) == t \in cfg.factHandlers /\ pc[t] = "idle"

FactExists(t) ==
    /\ FactIdle(t)
    /\ nops[t] = 0
    /\ \E n \in cfg.names : EntityExistsOf(t, n)

FactGet(t) ==
    /\ FactIdle(t)
    /\ res[t].kind = "EntityExists" /\ res[t].exists
    /\ GetEntityOf(t, res[t].name)

FactCreate(t) ==
    /\ FactIdle(t)
    /\ res[t].kind = "EntityExists" /\ ~res[t].exists
    /\ StartWriteFrom(t, "CreateEntity",
                      WithObj(NewEntity(res[t].name, DefaultType(EmptyStr)),
                              <<"new", t>>),
                      uuidCtr)

\* the read of e.Observations in AddObservation
FactAddRead(t) ==
    /\ FactIdle(t)
    /\ res[t].kind \in {"GetEntity", "CreateEntity"} /\ res[t].err = OK
    /\ loc' = [loc EXCEPT ![t].ent = Held(t), ![t].acc = Held(t).observations]
    /\ res' = [res EXCEPT ![t].kind = "AddObservation", ![t].ent = Held(t)]
    /\ Goto(t, "add_append")
    /\ UNCHANGED <<op, snap, nops, ctxDone, cfg, uuidCtr, hist>>
    /\ UNCHANGED_store /\ UNCHANGED_locks

\* the append and the assignment to e.Observations
FactAddAppend(t) ==
    /\ t \in cfg.factHandlers
    /\ pc[t] = "add_append"
    /\ LET obs == Append(loc[t].acc, NewObservation(cfg.factOf[t], uuidCtr))
           v   == [loc[t].ent EXCEPT !.observations = obs]
       IN  Assign(t, loc[t].ent.obj, v, [res[t] EXCEPT !.ent = v])
    /\ uuidCtr' = uuidCtr + 1
    /\ Goto(t, "idle")
    /\ UNCHANGED <<files, relFile, relationCache, snap, nops, ctxDone, cfg, hist>>
    /\ UNCHANGED_locks

FactUpdate(t) ==
    /\ FactIdle(t)
    /\ res[t].kind = "AddObservation"
    /\ StartWriteFrom(t, "UpdateEntity", res[t].ent, uuidCtr)

handleRememberFact(t) ==
    \/ FactExists(t)
    \/ FactGet(t)
    \/ FactCreate(t)
    \/ FactAddRead(t)
    \/ FactAddAppend(t)
    \/ FactUpdate(t)

(***************************************************************************)
(* SpecFacts: two remember requests for one name, with the facts "f" and  *)
(* "g", on a new store, on a store that holds the entity in its cache,    *)
(* and on a store that was opened on the directory of an earlier run.     *)
(***************************************************************************)
FactF == <<"f">>
FactG == <<"g">>

\* the store after CreateEntity(EA1): the cache holds the caller's object
CachedObjectEA1 ==
    /\ entityCache = [EmptyCache EXCEPT ![NameA] = Cached(WithObj(EA1, <<"created">>))]
    /\ relationCache = NoRels
    /\ cacheMutex = FreeLock
    /\ fileLocks = [p \in AllPaths |-> IF p = RelationsPath THEN 1
                                       ELSE IF p = getEntityFilePath(NameA) THEN 2 ELSE 0]
    /\ lockObjs = <<FreeLock, FreeLock>>
    /\ lockMutex = 0
    /\ relFile = RelationsToJSON(NoRels)
    /\ files = [n \in AllNames |-> IF n = NameA THEN EntityToJSON(EA1) ELSE Absent]
    /\ NoCalls

\* a new store, a store that holds EA1 in its cache, a store opened on the
\* directory that holds the file of EA1
StoreOfObjects ==
    \/ InitializedNew /\ files = [n \in AllNames |-> Absent] /\ NoCalls
    \/ CachedObjectEA1
    \/ /\ InitializedNew /\ NoCalls
       /\ files = [n \in AllNames |-> IF n = NameA THEN EntityToJSON(EA1) ELSE Absent]

InitFacts ==
    /\ StoreOfObjects
    /\ cfg = [NoCfg EXCEPT !.heap = TRUE, !.factHandlers = {1, 2},
                           !.names = {NameA}, !.factOf = <<FactF, FactG>>]

NextFacts ==
    \E t \in Threads :
        \/ handleRememberFact(t)
        \/ SaveSteps(t)
        \/ LoadSteps(t)

SpecFacts == InitFacts /\ [][NextFacts]_vars


(***************************************************************************)
(* C32.  No remembered fact is lost: when two remember requests for one   *)
(* name have both succeeded, the stored entity and the cached entity hold *)
(* both facts.                                                             *)
(***************************************************************************)
HasFact(observations, text) ==
    \E i \in 1..Len(observations) : observations[i].text = text

Remembered(t) ==
    /\ pc[t] = "idle"
    /\ res[t].kind = "UpdateEntity" /\ res[t].err = OK

C32_NoFactLost ==
    \A t, u \in cfg.factHandlers :
        (t # u /\ Remembered(t) /\ Remembered(u)) =>
            /\ files[res[t].name].kind = "entity"
            /\ HasFact(files[res[t].name].observations, cfg.factOf[t])
            /\ HasFact(files[res[t].name].observations, cfg.factOf[u])
            /\ entityCache[res[t].name].in
            /\ HasFact(entityCache[res[t].name].ent.observations, cfg.factOf[t])
            /\ HasFact(entityCache[res[t].name].ent.observations, cfg.factOf[u])


(***************************************************************************)
(* A caller that keeps the pointers: it passes its own object to          *)
(* CreateEntity, gets a pointer from GetEntity, assigns to the object it  *)
(* holds (retrievedEntity.AddObservation(...) in TestEntityCRUD,          *)
(* entity.EntityType = ... in handleUpdateEntity) and passes the object   *)
(* it holds to UpdateEntity.                                               *)
(***************************************************************************)
HoldsObject(t) ==
    /\ res[t].kind \in {"GetEntity", "CreateEntity", "UpdateEntity", "Assign"}
    /\ res[t].err = OK
    /\ HasObj(Held(t))

CallerCreate(t) ==
    /\ CanStart(t)
    /\ \E e \in cfg.ents :
         StartWriteFrom(t, "CreateEntity", WithObj(e, <<"arg", t, nops[t]>>), uuidCtr)

CallerUpdate(t) ==
    /\ CanStart(t)
    /\ HoldsObject(t)
    /\ StartWriteFrom(t, "UpdateEntity", Held(t), uuidCtr)

\* the caller's assignment of v to the object it holds
CallerAssign(t, v, ctr) ==
    /\ Assign(t, Held(t).obj, v,
              [NoRes EXCEPT !.kind = "Assign", !.name = Held(t).name, !.ent = v])
    /\ nops' = [nops EXCEPT ![t] = @ + 1]
    /\ uuidCtr' = ctr
    /\ UNCHANGED <<files, relFile, relationCache, pc, snap, ctxDone, cfg, hist>>
    /\ UNCHANGED_locks

\* entity.AddObservation(text), with no UpdateEntity
CallerAddObservation(t) ==
    /\ CanStart(t)
    /\ HoldsObject(t)
    /\ \E text \in cfg.facts :
         CallerAssign(t, AddObservation(Held(t), text, uuidCtr), uuidCtr + 1)

\* entity.EntityType = entityType, with no UpdateEntity
CallerSetType(t) ==
    /\ CanStart(t)
    /\ HoldsObject(t)
    /\ \E entityType \in cfg.types :
         CallerAssign(t, [Held(t) EXCEPT !.entityType = entityType], uuidCtr)

(***************************************************************************)
(* SpecObjects: one caller that keeps the pointers, on each store of      *)
(* StoreOfObjects.                                                         *)
(***************************************************************************)
InitObjects ==
    /\ StoreOfObjects
    /\ cfg = [NoCfg EXCEPT !.heap = TRUE, !.threads = {1}, !.maxOps = ObjOps,
                           !.ents = {EA1}, !.names = {NameA},
                           !.facts = {FactF}, !.types = {TypeP}]

NextObjects ==
    \E t \in Threads :
        \/ CallerCreate(t)
        \/ GetEntity(t)
        \/ CallerAddObservation(t)
        \/ CallerSetType(t)
        \/ CallerUpdate(t)
        \/ SaveSteps(t)
        \/ LoadSteps(t)

SpecObjects == InitObjects /\ [][NextObjects]_vars

(***************************************************************************)
(* C33.  The cached value changes only through store operations: what a   *)
(* caller assigns to an entity it got from GetEntity or passed to         *)
(* CreateEntity or UpdateEntity, without calling UpdateEntity, does not   *)
(* change what GetEntity returns.  With one caller and nobody else        *)
(* writing the files, GetEntity returns the entity as it was last         *)
(* stored: the content of the file.                                        *)
(***************************************************************************)
C33_GetReturnsStoredValue ==
    \A t \in cfg.threads :
        (pc[t] = "idle" /\ res[t].kind = "GetEntity" /\ res[t].err = OK) =>
            files[res[t].name] = EntityToJSON(res[t].ent)


(***************************************************************************)
(* Router.handleUpdateEntity: GetEntity, then the assignments to the      *)
(* object GetEntity returned (the type when the request has one, the      *)
(* observations replaced by one AddObservation for each text of the       *)
(* request), then UpdateEntity of that object.                             *)
(***************************************************************************)
RECURSIVE AddObservations(_, _, _)
AddObservations(e, texts, ctr) ==
    IF texts = << >> THEN e
    ELSE AddObservations(IF Head(texts) = EmptyStr THEN e
                         ELSE AddObservation(e, Head(texts), ctr),
                         Tail(texts), ctr + 1)

UpdateRequestApplied(e, req, ctr) ==
    LET e1 == IF req.entityType # EmptyStr
              THEN [e EXCEPT !.entityType = req.entityType] ELSE e
    IN  AddObservations([e1 EXCEPT !.observations = << >>], req.observations, ctr)

UpdateRequestGet(t) ==
    /\ t \in cfg.updHandlers
    /\ pc[t] = "idle"
    /\ nops[t] = 0
    /\ \E n \in cfg.names : GetEntityOf(t, n)

UpdateRequestAssign(t) ==
    /\ t \in cfg.updHandlers
    /\ pc[t] = "idle"
    /\ res[t].kind = "GetEntity" /\ res[t].err = OK
    /\ LET v == UpdateRequestApplied(res[t].ent, cfg.updReq, uuidCtr)
       IN  Assign(t, res[t].ent.obj, v,
                  [res[t] EXCEPT !.kind = "AddObservation", !.ent = v])
    /\ uuidCtr' = uuidCtr + Len(cfg.updReq.observations)
    /\ UNCHANGED <<files, relFile, relationCache, pc, snap, nops, ctxDone, cfg, hist>>
    /\ UNCHANGED_locks

UpdateRequestUpdate(t) ==
    /\ t \in cfg.updHandlers
    /\ pc[t] = "idle"
    /\ res[t].kind = "AddObservation"
    /\ StartWriteFrom(t, "UpdateEntity", res[t].ent, uuidCtr)

handleUpdateEntity(t) ==
    \/ UpdateRequestGet(t)
    \/ UpdateRequestAssign(t)
    \/ UpdateRequestUpdate(t)

(***************************************************************************)
(* SpecFailedWrite: one request at a time, a remember request or an       *)
(* update request, with a text of the allowed length or an over-long      *)
(* text, on each store of StoreOfObjects; when the request has returned,  *)
(* a caller calls GetEntity.                                               *)
(***************************************************************************)
TextLong == Repeat("c", MaxTextLen + 1)

RequestDone(h) ==
    /\ pc[h] = "idle"
    /\ \/ res[h].kind = "UpdateEntity"
       \/ res[h].kind \in {"GetEntity", "CreateEntity"} /\ res[h].err # OK

GetAfterRequest(t) ==
    /\ CanStart(t)
    /\ \A h \in cfg.factHandlers \cup cfg.updHandlers : RequestDone(h)
    /\ \E n \in cfg.names : GetEntityOf(t, n)

InitFailedWrite ==
    /\ StoreOfObjects
    /\ \E text \in {FactF, TextLong} :
         \/ cfg = [NoCfg EXCEPT !.heap = TRUE, !.snap = TRUE, !.names = {NameA},
                                !.threads = {3}, !.maxOps = RaceOps,
                                !.factHandlers = {1}, !.factOf = <<text>>]
         \/ cfg = [NoCfg EXCEPT !.heap = TRUE, !.snap = TRUE, !.names = {NameA},
                                !.threads = {3}, !.maxOps = RaceOps,
                                !.updHandlers = {2},
                                !.updReq = [entityType |-> TypeP,
                                            observations |-> <<text>>]]

NextFailedWrite ==
    \E t \in Threads :
        \/ handleRememberFact(t)
        \/ handleUpdateEntity(t)
        \/ GetAfterRequest(t)
        \/ SaveSteps(t)
        \/ LoadSteps(t)

SpecFailedWrite == InitFailedWrite /\ [][NextFailedWrite]_vars

(***************************************************************************)
(* C34.  A failed write leaves the store as it was: when a request has    *)
(* failed in its UpdateEntity step, the cache entry of the entity equals  *)
(* the file, and a later GetEntity returns the observations the file held *)
(* when the UpdateEntity step was called.                                  *)
(***************************************************************************)
FailedAtUpdate(h) ==
    /\ pc[h] = "idle"
    /\ res[h].kind = "UpdateEntity" /\ res[h].err # OK

C34_FailedWriteLeavesStore ==
    \A h \in cfg.factHandlers \cup cfg.updHandlers :
        (AllIdle /\ FailedAtUpdate(h)) =>
            /\ CacheCoherent(res[h].name)
            /\ \A c \in cfg.threads :
                 (res[c].kind = "GetEntity" /\ res[c].err = OK) =>
                     EntityToJSON(res[c].ent).observations
                         = snap[h].files[res[h].name].observations


(***************************************************************************)
(* Router.handleCreateRelation on relation sets that are objects: after   *)
(* GetRelations the handler looks for the requested relation in the set   *)
(* it was given, calls relations.AddRelation on that object               *)
(* (rs.Relations = append(rs.Relations, ...), a read and an assignment    *)
(* with no lock) and passes the object to SaveRelations.  The assignment  *)
(* reaches every holder of the pointer: the cache, the handlers that got  *)
(* the pointer from the cache, a SaveRelations that is under way.         *)
(***************************************************************************)
SamePtr(t, u) == hist.relPtr[u] = hist.relPtr[t]

\* for _, existing := range relations.Relations { ... }: not found
RelationCheck(t) ==
    /\ cfg.heap
    /\ t \in cfg.relHandlers
    /\ pc[t] = "idle"
    /\ res[t].kind = "GetRelations" /\ res[t].err = OK
    /\ ~HasRelation(res[t].rels, cfg.relOf[t])
    /\ res' = [res EXCEPT ![t].kind = "Checked"]
    /\ UNCHANGED <<pc, op, loc, snap, nops, ctxDone, cfg, uuidCtr, hist>>
    /\ UNCHANGED_store /\ UNCHANGED_locks

\* the read of rs.Relations in AddRelation
RelationAddRead(t) ==
    /\ t \in cfg.relHandlers
    /\ pc[t] = "idle"
    /\ res[t].kind = "Checked"
    /\ loc' = [loc EXCEPT ![t].rels = res[t].rels]
    /\ Goto(t, "rel_append")
    /\ UNCHANGED <<op, res, snap, nops, ctxDone, cfg, uuidCtr, hist>>
    /\ UNCHANGED_store /\ UNCHANGED_locks

\* the append and the assignment to rs.Relations

RelationAddAppend(t) ==
    /\ t \in cfg.relHandlers
    /\ pc[t] = "rel_append"
    /\ LET rq == cfg.relOf[t]
           rs == AddRelation(loc[t].rels, rq.from, rq.to, rq.relationType, uuidCtr)
       IN  /\ res' = [u \in Threads |->
                        IF u = t THEN [res[t] EXCEPT !.kind = "AddRelation", !.rels = rs]
                        ELSE IF SamePtr(t, u) /\ res[u].kind \in {"GetRelations", "Checked", "AddRelation"}
                        THEN [res[u] EXCEPT !.rels = rs]
                        ELSE res[u]]
           /\ op' = [u \in Threads |->
                        IF SamePtr(t, u) /\ op[u].kind = "SaveRelations" /\ pc[u] # "idle"
                        THEN [op[u] EXCEPT !.rels = rs] ELSE op[u]]
           /\ relationCache' = IF hist.cachePtr = hist.relPtr[t] THEN rs ELSE relationCache
    /\ loc' = [loc EXCEPT ![t] = NoLoc]
    /\ uuidCtr' = uuidCtr + 1
    /\ Goto(t, "idle")
    /\ UNCHANGED <<files, relFile, entityCache, snap, nops, ctxDone, cfg, hist>>
    /\ UNCHANGED_locks

RelationSave(t) ==
    /\ t \in cfg.relHandlers
    /\ pc[t] = "idle"
    /\ res[t].kind = "AddRelation"
    /\ SaveRelationsFrom(t, res[t].rels, uuidCtr)

(***************************************************************************)
(* SpecRelateTwo: two create-relation requests between two stored         *)
(* entities, for the same relation or for two relations, on a store with  *)
(* no relation and on a store whose cache holds a set of one relation.    *)
(***************************************************************************)
RelReq2 == [from |-> NameB, to |-> NameA, relationType |-> <<"r">>]

\* the store after SaveRelations of the set that holds R2: the cache holds
\* the caller's object (the caller is thread 3, which makes no further call)
SavedR2 ==
    /\ entityCache = EmptyCache
    /\ relationCache = <<R2>>
    /\ cacheMutex = FreeLock
    /\ fileLocks = [p \in AllPaths |-> IF p = RelationsPath THEN 1 ELSE 0]
    /\ lockObjs = <<FreeLock>>
    /\ lockMutex = 0
    /\ relFile = RelationsToJSON(<<R2>>)
    /\ pc = [t \in Threads |-> "idle"]
    /\ op = [t \in Threads |-> NoOp]
    /\ loc = [t \in Threads |-> NoLoc]
    /\ res = [t \in Threads |-> NoRes]
    /\ snap = [t \in Threads |-> NoSnap]
    /\ nops = [t \in Threads |-> 0]
    /\ ctxDone = [t \in Threads |-> FALSE]
    /\ uuidCtr = 0
    /\ hist = [NoHist EXCEPT !.wrote = {RelationsToJSON(<<R2>>)}, !.relCached = TRUE,
                             !.saved = <<R2>>, !.relPtr[3] = 3, !.cachePtr = 3]

InitRelateTwo ==
    /\ (InitializedNew /\ NoCalls) \/ SavedR2
    /\ files = [n \in AllNames |-> IF n = NameA THEN EntityToJSON(EA1)
                                    ELSE EntityToJSON(EB1)]
    /\ \E rq \in {RelReq, RelReq2} :
         cfg = [NoCfg EXCEPT !.heap = TRUE, !.relHandlers = {1, 2},
                             !.relReqs = {RelReq, rq}, !.relOf = <<RelReq, rq>>,
                             !.names = {NameA, NameB}]

NextRelateTwo ==
    \E t \in Threads :
        \/ CreateRelationCheckFrom(t)
        \/ CreateRelationCheckTo(t)
        \/ CreateRelationGet(t)
        \/ RelationCheck(t)
        \/ RelationAddRead(t)
        \/ RelationAddAppend(t)
        \/ RelationSave(t)
        \/ SaveSteps(t)
        \/ LoadSteps(t)

SpecRelateTwo == InitRelateTwo /\ [][NextRelateTwo]_vars

(***************************************************************************)
(* C35.  Concurrent create-relation requests keep the relation set        *)
(* consistent: when all have returned, the relation of every request that *)
(* succeeded is in the stored set, no two stored relations have the same  *)
(* from, to and type, and the cached set equals the file.                 *)
(***************************************************************************)
RelationCreated(t) ==
    /\ pc[t] = "idle"
    /\ res[t].kind = "SaveRelations" /\ res[t].err = OK

\* the handler has answered: after SaveRelations, or with a conflict when
\* GetRelations returned a set that holds the requested relation
RelationRequestDone(t) ==
    /\ pc[t] = "idle"
    /\ \/ res[t].kind = "SaveRelations"
       \/ /\ res[t].kind = "GetRelations"
          /\ HasRelation(res[t].rels, cfg.relOf[t])

NoTwoSame(rs) ==
    \A i, j \in 1..Len(rs) : (i # j) => ~HasRelation(<<rs[i]>>, rs[j])

C35_RelationSetConsistent ==
    (\A t \in cfg.relHandlers : RelationRequestDone(t)) =>
        /\ \A t \in cfg.relHandlers :
              RelationCreated(t) => HasRelation(StoredRelations, cfg.relOf[t])
        /\ NoTwoSame(StoredRelations)
        /\ relationCache = StoredRelations

====
